---- MODULE Spec2Model ----
(***************************************************************************)
(* A model of gotmuch's sync core: the Metadata Store (internal/persist),  *)
(* the GMail MailStore (internal/gmail), the Blob Store (internal/notmuch) *)
(* and the two-phase Sync engine (internal/sync).                          *)
(***************************************************************************)
EXTENDS Integers, Sequences, FiniteSets, TLC

(***************************************************************************)
(* Bounds of the model.                                                    *)
(***************************************************************************)
\* Number of distinct remote messages (perm ids 1..MaxMsgs).
MaxMsgs == 2
\* Number of Sync runs in one behaviour.
MaxRuns == 2
\* Width of the history cursor in bits (uint64 in the source, scaled down).
UintBits == 2
\* Capacity of the phase-1 channel (1000 in the source, scaled down so that
\* a full channel and a blocked producer happen).
ChanCap == 1
\* Longest scope and perm id the file names are computed for.
MaxNameLen == 2

\* Longest raw body inserted into the Blob Store.
MaxRawLen == 4

\* Burst of the rate limiter in quota units (250 in the source, scaled down
\* so that an operation has to wait for tokens).
rateLimitBurst == 5
\* Pages one list operation receives at most.
MaxPages == 2

\* Bytes a field of a basename has at most when two basenames are compared.
MaxPairLen == 1

\* Rows one phase-2 batch may list (1000 in the specification, scaled down
\* so that more flagged rows than one batch holds happen).
Batch == 1

RECURSIVE Pow2(_)
Pow2(n) == IF n = 0 THEN 1 ELSE 2 * Pow2(n - 1)

Mod == Pow2(UintBits)
Half == Pow2(UintBits - 1)
MaxUint == Mod - 1
Uints == 0 .. MaxUint

PermIds == 1 .. MaxMsgs

\* A nullable column: << >> is NULL, <<v>> is the value v.
NULL == << >>
Some(v) == <<v>>

(***************************************************************************)
(* internal/persist: the bias encoding of unsigned cursors.                *)
(***************************************************************************)
\* Conversion uint64 -> int64 (two's complement reinterpretation).
AsSigned(x) == IF x >= Half THEN x - Mod ELSE x
\* Conversion int64 -> uint64.
AsUnsigned(s) == s % Mod

\* orderedToSigned without the bias: the plain conversion.
orderedToSigned_NoBias(u) == AsSigned(u)

orderedToSigned(u) == AsSigned((u - Half) % Mod)

orderedToUnsigned(s) == (AsUnsigned(s) + Half) % Mod

SetMax(S) == CHOOSE m \in S : \A x \in S : x <= m

(***************************************************************************)
(* internal/persist: the database and the operations of a transaction.     *)
(* A database state is a record: history, the set of stored (signed)       *)
(* cursors of gmail_history_id; rows, the gmail_messages table as a        *)
(* function from message_id; labels, gmail_message_labels as a set of      *)
(* <<message_id, label_id>>.                                               *)
(***************************************************************************)
NoRows == [p \in {} |-> 0]

EmptyDB == [history |-> {}, rows |-> NoRows, labels |-> {}]

MkID(p, t) == [PermID |-> p, ThreadID |-> t]

\* SELECT history_id FROM gmail_history_id ORDER BY history_id DESC LIMIT 1
LatestHistoryID(t) ==
    IF t.history = {} THEN 0 ELSE orderedToUnsigned(SetMax(t.history))

\* WriteHistoryID with the comparison weakened to <.
WriteHistoryID_AllowEqual(t, history_id) ==
    IF history_id < LatestHistoryID(t)
    THEN [err |-> TRUE, tx |-> t]
    ELSE [err |-> FALSE,
          tx |-> [t EXCEPT !.history = @ \cup {orderedToSigned(history_id)}]]

\* Returns the error flag and the transaction's state afterwards.
WriteHistoryID(t, history_id) ==
    IF history_id <= LatestHistoryID(t)
    THEN [err |-> TRUE, tx |-> t]
    ELSE [err |-> FALSE,
          tx |-> [t EXCEPT !.history = @ \cup {orderedToSigned(history_id)}]]

\* InsertMessageID that leaves the history_id of an existing row alone.
InsertMessageID_KeepHistory(t, msg) ==
    LET p == msg.PermID
        row == IF p \in DOMAIN t.rows
               THEN [t.rows[p] EXCEPT !.thread = msg.ThreadID]
               ELSE [thread |-> msg.ThreadID, history |-> NULL, size |-> NULL]
    IN [t EXCEPT
          !.rows = [q \in (DOMAIN t.rows) \cup {p} |->
                        IF q = p THEN row ELSE t.rows[q]],
          !.labels = {l \in @ : l[1] # p}]

\* InsertMessageID without the DELETE FROM gmail_message_labels.
InsertMessageID_KeepLabels(t, msg) ==
    LET p == msg.PermID
        row == IF p \in DOMAIN t.rows
               THEN [t.rows[p] EXCEPT !.thread = msg.ThreadID, !.history = NULL]
               ELSE [thread |-> msg.ThreadID, history |-> NULL, size |-> NULL]
    IN [t EXCEPT
          !.rows = [q \in (DOMAIN t.rows) \cup {p} |->
                        IF q = p THEN row ELSE t.rows[q]]]

\* InsertMessageID as a plain INSERT OR REPLACE: the row is replaced whole.
InsertMessageID_Replace(t, msg) ==
    LET p == msg.PermID
        row == [thread |-> msg.ThreadID, history |-> NULL, size |-> NULL]
    IN [t EXCEPT
          !.rows = [q \in (DOMAIN t.rows) \cup {p} |->
                        IF q = p THEN row ELSE t.rows[q]],
          !.labels = {l \in @ : l[1] # p}]

\* UpdateHeader without the DELETE FROM gmail_message_labels.
UpdateHeader_NoDelete(t, hdr) ==
    LET p == hdr.PermID
    IN [t EXCEPT
          !.rows = [q \in DOMAIN t.rows |->
                        IF q = p
                        THEN [t.rows[q] EXCEPT !.history = Some(hdr.HistoryID),
                                               !.size = Some(hdr.SizeEstimate)]
                        ELSE t.rows[q]],
          !.labels = @ \cup {<<p, l>> : l \in hdr.LabelIDs}]

\* The upsert of gmail_messages and the delete of the message's labels.
InsertMessageID(t, msg) ==
    LET p == msg.PermID
        row == IF p \in DOMAIN t.rows
               THEN [t.rows[p] EXCEPT !.thread = msg.ThreadID, !.history = NULL]
               ELSE [thread |-> msg.ThreadID, history |-> NULL, size |-> NULL]
    IN [t EXCEPT
          !.rows = [q \in (DOMAIN t.rows) \cup {p} |->
                        IF q = p THEN row ELSE t.rows[q]],
          !.labels = {l \in @ : l[1] # p}]

\* UPDATE ... WHERE message_id = $3 (no row: nothing updated), then the
\* labels of the message are deleted and the header's inserted.
UpdateHeader(t, hdr) ==
    LET p == hdr.PermID
    IN [t EXCEPT
          !.rows = [q \in DOMAIN t.rows |->
                        IF q = p
                        THEN [t.rows[q] EXCEPT !.history = Some(hdr.HistoryID),
                                               !.size = Some(hdr.SizeEstimate)]
                        ELSE t.rows[q]],
          !.labels = {l \in @ : l[1] # p} \cup {<<p, l>> : l \in hdr.LabelIDs}]

\* SELECT message_id, thread_id FROM gmail_messages WHERE history_id IS NULL
\* (the set of rows the query yields; SQL leaves their order open).
ListUpdated(t) ==
    {MkID(p, t.rows[p].thread) : p \in {q \in DOMAIN t.rows : t.rows[q].history = NULL}}

\* The rows of a query held in the order of their message_id.
RECURSIVE RowSeq(_)
RowSeq(S) ==
    IF S = {} THEN << >>
    ELSE LET m == CHOOSE x \in S : \A y \in S : x.PermID <= y.PermID
         IN <<m>> \o RowSeq(S \ {m})

(***************************************************************************)
(* The state.                                                              *)
(***************************************************************************)
VARIABLES
    db,            \* the committed database
    tx,            \* the open transaction's view of the database
    txOpen,        \* whether a transaction is open
    blobs,         \* the Blob Store: per perm id "absent", "partial" or "full"
    remoteHistory, \* the remote profile's current history id
    remoteAdded,   \* per perm id the history id at which it was added (0: not there)
    remoteKind,    \* per perm id "none", "mail", "chat" or "phantom"
    lastChangeRun, \* the number of runs started when the remote last changed
    cancelled,     \* the run's cancellation token has fired
    grpDone,       \* the errgroup's context is cancelled
    grpErr,        \* the errgroup's first error ("" if none)
    pc,            \* where the goroutine running Sync is
    prod,          \* the producer task
    cons,          \* the consumer task (phase 1) or the worker (phase 2)
    ch,            \* the buffered channel of phase 1
    chClosed,      \* the channel is closed
    historyId,     \* pullList's historyId
    profile,       \* the profile's HistoryID read in this run
    runs,          \* the number of Sync runs started
    result,        \* how the last run ended; during a run "resync" if the
                   \* run before it succeeded and the remote has not changed
                   \* since that run began, else "running"
    calls,         \* the calls made in the current (or last) run: <<name, perm id>>
    listed,        \* the perm ids the MailStore listed in phase 1 of this run
    input,         \* the arguments of a function under test
    output         \* what the function under test has computed of them

dbVars == <<db, tx, txOpen>>
remoteVars == <<remoteHistory, remoteAdded, remoteKind, lastChangeRun>>
taskVars == <<grpDone, grpErr, prod, cons, ch, chClosed>>
localVars == <<historyId, profile, listed>>
testVars == <<input, output>>
vars == <<db, tx, txOpen, blobs, remoteHistory, remoteAdded, remoteKind,
          lastChangeRun, cancelled, grpDone, grpErr, pc, prod, cons, ch,
          chClosed, historyId, profile, runs, result, calls, listed,
          input, output>>

(***************************************************************************)
(* internal/gmail: the quota units of the calls.                           *)
(***************************************************************************)
quotaUnitsMessagesGet == 5

quotaUnitsPerGetProfile == 2

quotaUnitsPerHistoryList == 2

quotaUnitsPerMessagesList == 1

(***************************************************************************)

(* internal/gmail: the remote service and GmailService.                    *)
(***************************************************************************)
NoErr == [type |-> "nil", code |-> 0, reasons |-> {}]
\* A *googleapi.Error with its HTTP status and the reasons of its items.
GoogleApiError(code, reasons) == [type |-> "googleapi", code |-> code, reasons |-> reasons]
ErrMessageNotFound == [type |-> "ErrMessageNotFound", code |-> 0, reasons |-> {}]
CtxErr == [type |-> "context", code |-> 0, reasons |-> {}]
TransportErr == [type |-> "transport", code |-> 0, reasons |-> {}]

ThreadOf(p) == (p + 1) \div 2

\* The label ids the remote reports for a message.
RemoteLabels(kind) == IF kind = "chat" THEN {"CHAT"} ELSE {"INBOX"}

\* The answers Users.messages.get can give for a perm id: a message, or an
\* error. A message that is not (or no longer) there answers 404; a
\* transport failure can happen on any call.
RemoteGetAnswers(kind, added) ==
    (IF kind \in {"mail", "chat"}
     THEN {[err |-> NoErr, LabelIds |-> RemoteLabels(kind), HistoryId |-> added]}
     ELSE {[err |-> GoogleApiError(404, {"notFound"}), LabelIds |-> {}, HistoryId |-> 0],
           [err |-> GoogleApiError(404, {"failedPrecondition"}), LabelIds |-> {}, HistoryId |-> 0]})
    \cup {[err |-> TransportErr, LabelIds |-> {}, HistoryId |-> 0]}

isChat(msg) == "CHAT" \in msg.LabelIds

canonicalError(err) ==
    IF err.type = "googleapi" /\ err.code = 404 /\ "notFound" \in err.reasons
    THEN ErrMessageNotFound
    ELSE err

\* GmailService.GetMessageFull on the remote's answer: the error it returns
\* (errors.Cause of it) and the body's header.
GetMessageFull(ctxDone, id, answer) ==
    IF ctxDone
    THEN [err |-> CtxErr, PermID |-> id, HistoryID |-> 0, LabelIDs |-> {}]
    ELSE LET err1 == IF answer.err = NoErr /\ isChat(answer)
                     THEN ErrMessageNotFound ELSE answer.err
         IN IF err1 # NoErr
            THEN [err |-> canonicalError(err1), PermID |-> id,
                  HistoryID |-> 0, LabelIDs |-> {}]
            ELSE [err |-> NoErr, PermID |-> id,
                  HistoryID |-> answer.HistoryId, LabelIDs |-> answer.LabelIds]

\* Users.messages.list with the query "-is:chat {in:inbox in:sent}": the
\* mail the remote holds.
RECURSIVE SortedSeq(_)
SortedSeq(S) ==
    IF S = {} THEN << >>
    ELSE LET m == CHOOSE x \in S : \A y \in S : x <= y
         IN <<m>> \o SortedSeq(S \ {m})

IdSeq(ps) == [i \in 1 .. Len(ps) |-> MkID(ps[i], ThreadOf(ps[i]))]

RemoteListAll ==
    IdSeq(SortedSeq({p \in PermIds : remoteKind[p] = "mail"}))

\* Users.history.list with messageAdded: the messages added since the cursor,
\* chats and messages that can no longer be fetched among them.
RemoteListFrom(h) ==
    IdSeq(SortedSeq({p \in PermIds : remoteKind[p] \in {"mail", "chat", "phantom"}
                                    /\ remoteAdded[p] > h}))

(***************************************************************************)
(* internal/notmuch: the Blob Store.                                       *)
(***************************************************************************)
HaveMessage(b, p) == b[p] # "absent"

\* The outcomes of Service.Insert: ioutil.WriteFile creates the file at its
\* final path and writes it; it can fail before creating it or after a
\* partial write.
InsertOutcomes(b, p) ==
    {[err |-> FALSE, blobs |-> [b EXCEPT ![p] = "full"]],
     [err |-> TRUE, blobs |-> b],
     [err |-> TRUE, blobs |-> [b EXCEPT ![p] = "partial"]]}

(***************************************************************************)
(* internal/notmuch: the names of the message files.  A string is the      *)
(* sequence of its bytes.                                                  *)
(***************************************************************************)
\* shouldEscape that keeps the punctuation of the portable filename
\* character set ('-', '.', '_') as it is.
shouldEscape_Portable(c) ==
    ~(\/ (65 <= c /\ c <= 90) \/ (97 <= c /\ c <= 122) \/ (48 <= c /\ c <= 57)
      \/ c \in {45, 46, 95})

\* 'A' <= c <= 'Z' || 'a' <= c <= 'z' || '0' <= c <= '9' are not escaped.
shouldEscape(c) ==
    ~(\/ (65 <= c /\ c <= 90) \/ (97 <= c /\ c <= 122) \/ (48 <= c /\ c <= 57))

\* "0123456789ABCDEF"
HexDigits == <<48, 49, 50, 51, 52, 53, 54, 55, 56, 57, 65, 66, 67, 68, 69, 70>>

\* The second loop of escape, from byte i of s on: '=' and the two hex
\* digits c>>4 and c&15 for a byte to escape, the byte itself otherwise.
RECURSIVE escapeFrom(_, _)
escapeFrom(s, i) ==
    IF i > Len(s) THEN << >>
    ELSE LET c == s[i]
         IN (IF shouldEscape(c)
             THEN <<61, HexDigits[(c \div 16) + 1], HexDigits[(c % 16) + 1]>>
             ELSE <<c>>) \o escapeFrom(s, i + 1)

escape(s) ==
    LET hexCount == Cardinality({i \in 1 .. Len(s) : shouldEscape(s[i])})
    IN IF hexCount = 0 THEN s ELSE escapeFrom(s, 1)

\* "gotmuch-1-"
EncodePrefix == <<103, 111, 116, 109, 117, 99, 104, 45, 49, 45>>

\* encode without the '-' between the two fields.
encode_NoSeparator(b) == EncodePrefix \o escape(b.scope) \o escape(b.permID)

encode(b) == EncodePrefix \o escape(b.scope) \o <<45>> \o escape(b.permID)

(***************************************************************************)

(* internal/notmuch: the paths of the message files and Service.Insert.    *)
(* files maps the paths that exist to their content.                       *)
(***************************************************************************)
\* "abcdefghijklmnop"
pathFarm16 == <<"a", "b", "c", "d", "e", "f", "g", "h",
                "i", "j", "k", "l", "m", "n", "o", "p">>

\* The exclusive or of two bytes.
RECURSIVE BitXor(_, _, _)
BitXor(a, b, bits) ==
    IF bits = 0 THEN 0
    ELSE ((a + b) % 2) + 2 * BitXor(a \div 2, b \div 2, bits - 1)

\* fingerprint with the hash FNV-1 (multiply, then exclusive or).
RECURSIVE fnv1From(_, _, _)
fnv1From(b, i, h) ==
    IF i > Len(b) THEN h
    ELSE fnv1From(b, i + 1, BitXor((h * 147) % 256, b[i], 8))

fingerprint_Fnv1(b) == fnv1From(b, 1, 197)

\* The low byte of the 32-bit FNV-1a hash, which is all pathParts uses of
\* it: the low byte of the offset basis 0x811C9DC5 is 0xC5, that of the
\* prime 0x01000193 is 0x93, and the low byte of a product is that of the
\* product of the low bytes.
RECURSIVE fingerprintFrom(_, _, _)
fingerprintFrom(b, i, h) ==
    IF i > Len(b) THEN h
    ELSE fingerprintFrom(b, i + 1, (BitXor(h, b[i], 8) * 147) % 256)

fingerprint(b) == fingerprintFrom(b, 1, 197)

pathParts(id) ==
    LET fp == fingerprint(id)
        nibble1 == fp % 16
        nibble2 == (fp \div 16) % 16
    IN <<pathFarm16[nibble1 + 1], pathFarm16[nibble2 + 1]>>

\* New: the Service made for an account; its path is the directory
\* "gotmuch" of the notmuch database, whatever the account.
NewService(account) == [path |-> <<"gotmuch">>]

\* Service.makePath, the scope being "xxx".
makePath(s, id) ==
    [root |-> s.path, dirs |-> pathParts(id),
     base |-> encode([scope |-> <<120, 120, 120>>, permID |-> id])]

\* Service.HaveMessage: os.Stat of the path succeeds.
HaveFile(files, s, id) == makePath(s, id) \in DOMAIN files

\* The first index from start on at which old occurs in s, 0 if none.
Index(s, start, old) ==
    LET at == {j \in start .. (Len(s) - Len(old) + 1) :
                  SubSeq(s, j, j + Len(old) - 1) = old}
    IN IF at = {} THEN 0 ELSE CHOOSE j \in at : \A k \in at : j <= k

\* strings.Replace with n = 1: the first occurrence alone is replaced.
ReplaceAll_First(s, old, new) ==
    LET j == Index(s, 1, old)
    IN IF j = 0 THEN s
       ELSE SubSeq(s, 1, j - 1) \o new \o SubSeq(s, j + Len(old), Len(s))

\* strings.ReplaceAll for a non-empty old: the occurrences are found from
\* left to right, each search starting after the occurrence before.
RECURSIVE ReplaceFrom(_, _, _, _)
ReplaceFrom(s, start, old, new) ==
    LET j == Index(s, start, old)
    IN IF j = 0 THEN SubSeq(s, start, Len(s))
       ELSE SubSeq(s, start, j - 1) \o new \o ReplaceFrom(s, j + Len(old), old, new)

ReplaceAll(s, old, new) == ReplaceFrom(s, 1, old, new)

WithFile(files, path, content) ==
    [q \in (DOMAIN files) \cup {path} |-> IF q = path THEN content ELSE files[q]]

\* ioutil.WriteFile: the file cannot be opened, or it is created or
\* truncated and the write fails after a part of the data, or all is
\* written.
WriteFile(files, path, data) ==
    {[err |-> FALSE, files |-> WithFile(files, path, data)],
     [err |-> TRUE, files |-> files]}
       \cup {[err |-> TRUE, files |-> WithFile(files, path, SubSeq(data, 1, n))] :
                n \in 0 .. (Len(data) - 1)}

\* Service.Insert without the tests of msg.PermID and msg.Raw.
Insert_NoCheck(files, s, msg) ==
    LET path == makePath(s, msg.PermID)
        raw == ReplaceAll(msg.Raw, <<13, 10>>, <<10>>)
    IN WriteFile(files, path, raw)

\* Service.Insert.
Insert(files, s, msg) ==
    IF msg.PermID = << >> THEN {[err |-> TRUE, files |-> files]}
    ELSE IF msg.Raw = << >> THEN {[err |-> TRUE, files |-> files]}
    ELSE LET path == makePath(s, msg.PermID)
             raw == ReplaceAll(msg.Raw, <<13, 10>>, <<10>>)
         IN WriteFile(files, path, raw)

(***************************************************************************)

(* internal/notmuch: the directory farm.  A directory is the sequence of   *)
(* the names below the root (the root is the empty sequence); fs is the    *)
(* set of directories that exist, bad a directory os.Mkdir fails for.      *)
(***************************************************************************)
\* The depth New makes the farm with.
FarmDepth == 2

NoDir == <<"-">>

\* mkdir that returns the error of os.Mkdir also when the directory exists.
mkdir_NoIsExist(fs, dir, bad) ==
    IF dir = bad \/ dir \in fs
    THEN [err |-> TRUE, fs |-> fs]
    ELSE [err |-> FALSE, fs |-> fs \cup {dir}]

\* os.Mkdir, its error ignored when the directory exists.
mkdir(fs, dir, bad) ==
    IF dir \in fs
    THEN [err |-> FALSE, fs |-> fs]
    ELSE IF dir = bad
         THEN [err |-> TRUE, fs |-> fs]
         ELSE [err |-> FALSE, fs |-> fs \cup {dir}]

\* mkdirfarm, and its loop over pathFarm16 from letter i on.
RECURSIVE mkdirfarm(_, _, _, _)
RECURSIVE mkdirfarmLoop(_, _, _, _, _)
mkdirfarm(fs, path, depth, bad) ==
    LET r == mkdir(fs, path, bad)
    IN IF r.err THEN r
       ELSE IF depth = 0 THEN r
            ELSE mkdirfarmLoop(r.fs, path, depth, 1, bad)

mkdirfarmLoop(fs, path, depth, i, bad) ==
    IF i > Len(pathFarm16) THEN [err |-> FALSE, fs |-> fs]
    ELSE LET r == mkdirfarm(fs, path \o <<pathFarm16[i]>>, depth - 1, bad)
         IN IF r.err THEN r
            ELSE mkdirfarmLoop(r.fs, path, depth, i + 1, bad)

(***************************************************************************)

(* The initial state: a freshly opened database, an empty Blob Store, a    *)
(* remote mailbox with no message yet.                                     *)
(***************************************************************************)
TaskOff == [st |-> "off", todo |-> << >>, id |-> MkID(0, 0)]

InitStores ==
    /\ db = EmptyDB
    /\ tx = EmptyDB
    /\ txOpen = FALSE
    /\ blobs = [p \in PermIds |-> "absent"]
    /\ remoteHistory = 0
    /\ remoteAdded = [p \in PermIds |-> 0]
    /\ remoteKind = [p \in PermIds |-> "none"]
    /\ lastChangeRun = 0
    /\ cancelled = FALSE
    /\ grpDone = FALSE
    /\ grpErr = ""
    /\ pc = "idle"
    /\ prod = TaskOff
    /\ cons = TaskOff
    /\ ch = << >>
    /\ chClosed = FALSE
    /\ historyId = 0
    /\ profile = 0
    /\ runs = 0
    /\ result = "none"
    /\ calls = {}
    /\ listed = {}

NoValue == << >>

Init ==
    /\ InitStores
    /\ input = NoValue
    /\ output = NoValue

(***************************************************************************)
(* The environment: the remote mailbox changes, the token fires, the       *)
(* process is killed.                                                      *)
(***************************************************************************)
\* A message arrives, between two runs or while phase 1 enumerates: the
\* remote's history id rises. (An arrival later in a run is seen by the next
\* run exactly as one after the run.) Perm ids are opaque: the messages are
\* numbered in the order of their arrival.
RemoteAdd ==
    /\ \/ pc = "idle" /\ runs < MaxRuns
       \/ pc = "p1_wait"
    /\ remoteHistory < MaxUint
    /\ \E p \in PermIds, k \in {"mail", "chat", "phantom"} :
          /\ remoteKind[p] = "none"
          /\ \A q \in PermIds : q < p => remoteKind[q] # "none"
          /\ remoteKind' = [remoteKind EXCEPT ![p] = k]
          /\ remoteAdded' = [remoteAdded EXCEPT ![p] = remoteHistory + 1]
    /\ remoteHistory' = remoteHistory + 1
    /\ lastChangeRun' = runs
    /\ UNCHANGED <<dbVars, blobs, cancelled, taskVars, pc, localVars, runs,
                   result, calls>>
    /\ UNCHANGED testVars

\* The remote's history is reset: its history id falls, and every message
\* it holds is older than the new history.
RemoteReset ==
    /\ pc = "idle"
    /\ runs < MaxRuns
    /\ remoteHistory > 0
    /\ \E h \in 0 .. remoteHistory - 1 : remoteHistory' = h
    /\ remoteAdded' = [p \in PermIds |-> 0]
    /\ UNCHANGED remoteKind
    /\ lastChangeRun' = runs
    /\ UNCHANGED <<dbVars, blobs, cancelled, taskVars, pc, localVars, runs,
                   result, calls>>
    /\ UNCHANGED testVars

Phase == IF pc \in {"p1_begin", "p1_latest", "p1_profile", "p1_compare",
                    "p1_write", "p1_wait", "p1_commit"} THEN 1
         ELSE IF pc = "idle" THEN 0 ELSE 2

\* The cancellation token fires during a run.
Cancel ==
    /\ pc # "idle"
    /\ ~cancelled
    /\ cancelled' = TRUE
    /\ UNCHANGED <<dbVars, blobs, remoteVars, taskVars, pc, localVars, runs,
                   result, calls>>
    /\ UNCHANGED testVars

\* The end of a run: Sync returns (or the process dies); an open
\* transaction is rolled back, the tasks and locals are gone.
Finish(res) ==
    /\ pc' = "idle"
    /\ result' = res
    /\ tx' = EmptyDB
    /\ txOpen' = FALSE
    /\ grpDone' = FALSE
    /\ grpErr' = ""
    /\ prod' = TaskOff
    /\ cons' = TaskOff
    /\ ch' = << >>
    /\ chClosed' = FALSE
    /\ historyId' = 0
    /\ profile' = 0
    /\ listed' = {}

\* The process is killed at any point of a run.
Crash ==
    /\ pc # "idle"
    /\ Finish("crash")
    /\ UNCHANGED <<db, blobs, remoteVars, cancelled, runs, calls>>
    /\ UNCHANGED testVars

(***************************************************************************)
(* internal/sync: Sync, phase 1 (pullList).                                *)
(***************************************************************************)
Call(name, p) == calls' = calls \cup {<<name, p>>}

SyncStart ==
    /\ pc = "idle"
    /\ runs < MaxRuns
    /\ runs' = runs + 1
    /\ pc' = "p1_begin"
    /\ cancelled' = FALSE
    /\ calls' = {}
    /\ result' = IF result = "ok" /\ lastChangeRun < runs THEN "resync" ELSE "running"
    /\ UNCHANGED <<dbVars, blobs, remoteVars, taskVars, localVars>>
    /\ UNCHANGED testVars

\* db.Begin: its error is not looked at, so a failed Begin leaves a nil
\* transaction whose first use panics.
P1Begin ==
    /\ pc = "p1_begin"
    /\ \E fails \in {cancelled, TRUE} :
          IF fails
          THEN /\ Finish("panic")
               /\ UNCHANGED db
          ELSE /\ tx' = db
               /\ txOpen' = TRUE
               /\ pc' = "p1_latest"
               /\ UNCHANGED <<db, taskVars, localVars, result>>
    /\ UNCHANGED <<blobs, remoteVars, cancelled, runs, calls>>
    /\ UNCHANGED testVars

\* historyId, err := tx.LatestHistoryID(ctx)
P1Latest ==
    /\ pc = "p1_latest"
    /\ \E fails \in {cancelled, TRUE} :
          IF fails
          THEN Finish("error")
          ELSE /\ historyId' = LatestHistoryID(tx)
               /\ pc' = "p1_profile"
               /\ UNCHANGED <<tx, txOpen, taskVars, profile, listed, result>>
    /\ UNCHANGED <<db, blobs, remoteVars, cancelled, runs, calls>>
    /\ UNCHANGED testVars

\* profile, err := g.GetProfile(ctx), in pullComplete and pullIncremental
P1Profile ==
    /\ pc = "p1_profile"
    /\ Call("GetProfile", 0)
    /\ \E fails \in {cancelled, TRUE} :
          IF fails
          THEN Finish("error")
          ELSE /\ profile' = remoteHistory
               /\ pc' = IF historyId = 0 THEN "p1_write" ELSE "p1_compare"
               /\ UNCHANGED <<tx, txOpen, taskVars, historyId, listed, result>>
    /\ UNCHANGED <<db, blobs, remoteVars, cancelled, runs>>
    /\ UNCHANGED testVars

\* P1Compare without the early return of the equal case.
P1Compare_NoEqual ==
    /\ pc = "p1_compare"
    /\ IF historyId > profile
       THEN Finish("error")
       ELSE /\ pc' = "p1_write"
            /\ UNCHANGED <<tx, txOpen, taskVars, localVars, result>>
    /\ UNCHANGED <<db, blobs, remoteVars, cancelled, runs, calls>>
    /\ UNCHANGED testVars

\* P1Compare without the check for a history reset.
P1Compare_NoReset ==
    /\ pc = "p1_compare"
    /\ IF historyId = profile
       THEN /\ pc' = "p1_commit"
            /\ UNCHANGED <<tx, txOpen, taskVars, localVars, result>>
       ELSE /\ pc' = "p1_write"
            /\ UNCHANGED <<tx, txOpen, taskVars, localVars, result>>
    /\ UNCHANGED <<db, blobs, remoteVars, cancelled, runs, calls>>
    /\ UNCHANGED testVars

\* pullIncremental's comparison of the stored cursor with the profile's.
P1Compare ==
    /\ pc = "p1_compare"
    /\ IF historyId = profile
       THEN /\ pc' = "p1_commit"
            /\ UNCHANGED <<tx, txOpen, taskVars, localVars, result>>
       ELSE IF historyId > profile
       THEN Finish("error")
       ELSE /\ pc' = "p1_write"
            /\ UNCHANGED <<tx, txOpen, taskVars, localVars, result>>
    /\ UNCHANGED <<db, blobs, remoteVars, cancelled, runs, calls>>
    /\ UNCHANGED testVars

\* pullComplete / pullIncremental starting the tasks without the call of
\* tx.WriteHistoryID.
P1Write_NoWrite ==
    /\ pc = "p1_write"
    /\ \E fails \in {cancelled, TRUE} :
          IF fails
          THEN Finish("error")
          ELSE /\ prod' = [TaskOff EXCEPT !.st = "start"]
               /\ cons' = [TaskOff EXCEPT !.st = "recv"]
               /\ pc' = "p1_wait"
               /\ UNCHANGED <<tx, txOpen, grpDone, grpErr, ch, chClosed, localVars, result>>
    /\ UNCHANGED <<db, blobs, remoteVars, cancelled, runs, calls>>
    /\ UNCHANGED testVars

\* tx.WriteHistoryID(ctx, profile.HistoryID), then the two tasks are started.
P1Write ==
    /\ pc = "p1_write"
    /\ Call("WriteHistoryID", 0)
    /\ \E fails \in {cancelled, TRUE} :
          LET r == WriteHistoryID(tx, profile)
          IN IF fails \/ r.err
             THEN Finish("error")
             ELSE /\ tx' = r.tx
                  /\ prod' = [TaskOff EXCEPT !.st = "start"]
                  /\ cons' = [TaskOff EXCEPT !.st = "recv"]
                  /\ pc' = "p1_wait"
                  /\ UNCHANGED <<txOpen, grpDone, grpErr, ch, chClosed, localVars, result>>
    /\ UNCHANGED <<db, blobs, remoteVars, cancelled, runs>>
    /\ UNCHANGED testVars

CtxDone == cancelled \/ grpDone

\* A task returns: errgroup records the first error and cancels the group's
\* context. The producer's deferred close(ids) runs as it returns.
TaskDone == [st |-> "done", todo |-> << >>, id |-> MkID(0, 0)]

GroupRecord(err) ==
    /\ grpErr' = IF grpErr = "" THEN err ELSE grpErr
    /\ grpDone' = (grpDone \/ err # "")

ProdReturn(err) ==
    /\ prod' = TaskDone
    /\ chClosed' = TRUE
    /\ GroupRecord(err)

ConsReturn(err) ==
    /\ cons' = TaskDone
    /\ GroupRecord(err)

\* listIds listing from the profile's history id instead of the stored one.
P1ProdStart_FromProfile ==
    /\ pc = "p1_wait"
    /\ prod.st = "start"
    /\ Call(IF historyId = 0 THEN "ListAll" ELSE "ListFrom", 0)
    /\ \E fails \in {CtxDone, TRUE} :
          IF fails
          THEN /\ ProdReturn(IF CtxDone THEN "context" ELSE "transport")
               /\ UNCHANGED listed
          ELSE LET ids == IF historyId = 0 THEN RemoteListAll
                          ELSE RemoteListFrom(profile)
               IN /\ prod' = [prod EXCEPT !.st = "emit", !.todo = ids]
                  /\ listed' = {ids[i].PermID : i \in 1 .. Len(ids)}
                  /\ UNCHANGED <<chClosed, grpDone, grpErr>>
    /\ UNCHANGED <<dbVars, blobs, remoteVars, cancelled, pc, cons, ch, historyId,
                   profile, runs, result>>
    /\ UNCHANGED testVars

\* listIds: the call of ListAll or ListFrom (the limiter's wait, the first page).
P1ProdStart ==
    /\ pc = "p1_wait"
    /\ prod.st = "start"
    /\ Call(IF historyId = 0 THEN "ListAll" ELSE "ListFrom", 0)
    /\ \E fails \in {CtxDone, TRUE} :
          IF fails
          THEN /\ ProdReturn(IF CtxDone THEN "context" ELSE "transport")
               /\ UNCHANGED listed
          ELSE LET ids == IF historyId = 0 THEN RemoteListAll
                          ELSE RemoteListFrom(historyId)
               IN /\ prod' = [prod EXCEPT !.st = "emit", !.todo = ids]
                  /\ listed' = {ids[i].PermID : i \in 1 .. Len(ids)}
                  /\ UNCHANGED <<chClosed, grpDone, grpErr>>
    /\ UNCHANGED <<dbVars, blobs, remoteVars, cancelled, pc, cons, ch, historyId,
                   profile, runs, result>>
    /\ UNCHANGED testVars

\* listIds whose handler sends the last id of the list first.
P1ProdEmit_LastFirst ==
    /\ pc = "p1_wait"
    /\ prod.st = "emit"
    /\ \/ /\ prod.todo = << >>
          /\ ProdReturn("")
          /\ UNCHANGED ch
       \/ /\ prod.todo # << >>
          /\ CtxDone
          /\ ProdReturn("context")
          /\ UNCHANGED ch
       \/ /\ prod.todo # << >>
          /\ Len(ch) < ChanCap
          /\ ch' = Append(ch, prod.todo[Len(prod.todo)])
          /\ prod' = [prod EXCEPT !.todo = SubSeq(@, 1, Len(@) - 1)]
          /\ UNCHANGED <<chClosed, grpDone, grpErr>>
       \/ /\ prod.todo # << >>
          /\ ProdReturn("transport")
          /\ UNCHANGED ch
    /\ UNCHANGED <<dbVars, blobs, remoteVars, cancelled, pc, cons, localVars,
                   runs, result, calls>>
    /\ UNCHANGED testVars

\* listIds: the handler's select for one id, the end of the list, or an
\* error of a page request.
P1ProdEmit ==
    /\ pc = "p1_wait"
    /\ prod.st = "emit"
    /\ \/ /\ prod.todo = << >>
          /\ ProdReturn("")
          /\ UNCHANGED ch
       \/ /\ prod.todo # << >>
          /\ CtxDone
          /\ ProdReturn("context")
          /\ UNCHANGED ch
       \/ /\ prod.todo # << >>
          /\ Len(ch) < ChanCap
          /\ ch' = Append(ch, Head(prod.todo))
          /\ prod' = [prod EXCEPT !.todo = Tail(@)]
          /\ UNCHANGED <<chClosed, grpDone, grpErr>>
       \/ /\ prod.todo # << >>
          /\ ProdReturn("transport")
          /\ UNCHANGED ch
    /\ UNCHANGED <<dbVars, blobs, remoteVars, cancelled, pc, cons, localVars,
                   runs, result, calls>>
    /\ UNCHANGED testVars

\* saveIds receiving an id without the call of tx.InsertMessageID.
P1ConsRecv_SkipInsert ==
    /\ pc = "p1_wait"
    /\ cons.st = "recv"
    /\ \/ /\ ch # << >>
          /\ ch' = Tail(ch)
          /\ UNCHANGED <<tx, cons, grpDone, grpErr, calls>>
       \/ /\ ch = << >>
          /\ chClosed
          /\ ConsReturn("")
          /\ UNCHANGED <<tx, ch, calls>>
    /\ UNCHANGED <<db, txOpen, blobs, remoteVars, cancelled, pc, prod, chClosed,
                   localVars, runs, result>>
    /\ UNCHANGED testVars

\* saveIds: one iteration of the range over the channel, or its end.
P1ConsRecv ==
    /\ pc = "p1_wait"
    /\ cons.st = "recv"
    /\ \/ /\ ch # << >>
          /\ ch' = Tail(ch)
          /\ Call("InsertMessageID", Head(ch).PermID)
          /\ \E fails \in {CtxDone, TRUE} :
                IF fails
                THEN /\ ConsReturn(IF CtxDone THEN "context" ELSE "db")
                     /\ UNCHANGED tx
                ELSE /\ tx' = InsertMessageID(tx, Head(ch))
                     /\ UNCHANGED <<cons, grpDone, grpErr>>
       \/ /\ ch = << >>
          /\ chClosed
          /\ ConsReturn("")
          /\ UNCHANGED <<tx, ch, calls>>
    /\ UNCHANGED <<db, txOpen, blobs, remoteVars, cancelled, pc, prod, chClosed,
                   localVars, runs, result>>
    /\ UNCHANGED testVars

\* P1Wait with the group's error not looked at.
P1Wait_IgnoreError ==
    /\ pc = "p1_wait"
    /\ prod.st = "done"
    /\ cons.st = "done"
    /\ pc' = "p1_commit"
    /\ prod' = TaskOff
    /\ cons' = TaskOff
    /\ grpDone' = FALSE
    /\ grpErr' = ""
    /\ UNCHANGED <<tx, txOpen, ch, chClosed, localVars, result>>
    /\ UNCHANGED <<db, blobs, remoteVars, cancelled, runs, calls>>
    /\ UNCHANGED testVars

\* grp.Wait() in pullComplete / pullIncremental, and pullList's check.
P1Wait ==
    /\ pc = "p1_wait"
    /\ prod.st = "done"
    /\ cons.st = "done"
    /\ IF grpErr # ""
       THEN Finish("error")
       ELSE /\ pc' = "p1_commit"
            /\ prod' = TaskOff
            /\ cons' = TaskOff
            /\ grpDone' = FALSE
            /\ UNCHANGED <<tx, txOpen, grpErr, ch, chClosed, localVars, result>>
    /\ UNCHANGED <<db, blobs, remoteVars, cancelled, runs, calls>>
    /\ UNCHANGED testVars

\* return tx.Commit() in pullList: a transaction whose context is cancelled
\* does not commit.
P1Commit ==
    /\ pc = "p1_commit"
    /\ \E fails \in {cancelled, TRUE} :
          IF fails
          THEN /\ Finish("error")
               /\ UNCHANGED <<db, calls>>
          ELSE /\ db' = tx
               /\ tx' = EmptyDB
               /\ txOpen' = FALSE
               /\ Call("Commit1", 0)
               /\ pc' = "p2_begin"
               /\ historyId' = 0
               /\ profile' = 0
               /\ listed' = {}
               /\ UNCHANGED <<taskVars, result>>
    /\ UNCHANGED <<blobs, remoteVars, cancelled, runs>>
    /\ UNCHANGED testVars

(***************************************************************************)
(* internal/sync: phase 2 (pullDownload).                                  *)
(***************************************************************************)
\* handleOutdatedMessage with the header stored before the blob is written.
handleOutdatedMessage_HeaderFirst(t, b, ctxDone, id, answer, ins) ==
    IF HaveMessage(b, id.PermID)
    THEN [err |-> NoErr, blobs |-> b, tx |-> t, calls |-> {<<"Have", id.PermID>>}]
    ELSE LET fullMsg == GetMessageFull(ctxDone, id.PermID, answer)
             got == {<<"GetMessageFull", id.PermID>>}
             hdr == [PermID |-> id.PermID, HistoryID |-> fullMsg.HistoryID,
                     SizeEstimate |-> 1, LabelIDs |-> fullMsg.LabelIDs]
         IN IF fullMsg.err # NoErr
            THEN IF fullMsg.err.type = "googleapi" /\ fullMsg.err.code = 404
                 THEN [err |-> NoErr, blobs |-> b, tx |-> t, calls |-> got]
                 ELSE [err |-> fullMsg.err, blobs |-> b, tx |-> t, calls |-> got]
            ELSE [err |-> IF ins.err THEN [type |-> "io", code |-> 0, reasons |-> {}]
                          ELSE NoErr,
                  blobs |-> ins.blobs, tx |-> UpdateHeader(t, hdr),
                  calls |-> got \cup {<<"Insert", id.PermID>>, <<"UpdateHeader", id.PermID>>}]

\* handleOutdatedMessage without the nm.HaveMessage test: the message is
\* fetched and inserted whether or not its file exists.
handleOutdatedMessage_NoHave(t, b, ctxDone, id, answer, ins) ==
    LET fullMsg == GetMessageFull(ctxDone, id.PermID, answer)
        got == {<<"GetMessageFull", id.PermID>>}
    IN IF fullMsg.err # NoErr
       THEN IF fullMsg.err.type = "googleapi" /\ fullMsg.err.code = 404
            THEN [err |-> NoErr, blobs |-> b, tx |-> t, calls |-> got]
            ELSE [err |-> fullMsg.err, blobs |-> b, tx |-> t, calls |-> got]
       ELSE [err |-> IF ins.err THEN [type |-> "io", code |-> 0, reasons |-> {}]
                     ELSE NoErr,
             blobs |-> ins.blobs, tx |-> t,
             calls |-> got \cup {<<"Insert", id.PermID>>}]

\* handleOutdatedMessage for one id, given the remote's answer and the
\* outcome of the Blob Store's Insert: the error it returns, the Blob
\* Store and the transaction afterwards, and the calls it made.
handleOutdatedMessage(t, b, ctxDone, id, answer, ins) ==
    IF HaveMessage(b, id.PermID)
    THEN [err |-> NoErr, blobs |-> b, tx |-> t, calls |-> {<<"Have", id.PermID>>}]
    ELSE LET fullMsg == GetMessageFull(ctxDone, id.PermID, answer)
             got == {<<"GetMessageFull", id.PermID>>}
         IN IF fullMsg.err # NoErr
            THEN IF fullMsg.err.type = "googleapi" /\ fullMsg.err.code = 404
                 THEN [err |-> NoErr, blobs |-> b, tx |-> t, calls |-> got]
                 ELSE [err |-> fullMsg.err, blobs |-> b, tx |-> t, calls |-> got]
            ELSE [err |-> IF ins.err THEN [type |-> "io", code |-> 0, reasons |-> {}]
                          ELSE NoErr,
                  blobs |-> ins.blobs, tx |-> t,
                  calls |-> got \cup {<<"Insert", id.PermID>>}]

\* What the worker's loop does with handleOutdatedMessage's error: the error
\* the worker's task returns ("" when it goes on with the next id).
WorkerError(err) == ""

\* db.Begin of pullDownload, its error not looked at; then the producer task
\* is started.
P2Begin ==
    /\ pc = "p2_begin"
    /\ \E fails \in {cancelled, TRUE} :
          IF fails
          THEN Finish("panic")
          ELSE /\ tx' = db
               /\ txOpen' = TRUE
               /\ prod' = [TaskOff EXCEPT !.st = "start"]
               /\ pc' = "p2_first"
               /\ UNCHANGED <<grpDone, grpErr, cons, ch, chClosed, localVars, result>>
    /\ UNCHANGED <<db, blobs, remoteVars, cancelled, runs, calls>>
    /\ UNCHANGED testVars

\* tx.ListOutdated: the query. The rows come in no stated order: todo holds
\* the rows not yet scanned, and each scan takes any of them.
P2ProdStart ==
    /\ pc \in {"p2_first", "p2_wait"}
    /\ prod.st = "start"
    /\ \E fails \in {CtxDone, TRUE} :
          IF fails
          THEN ProdReturn(IF CtxDone THEN "context" ELSE "db")
          ELSE /\ prod' = [prod EXCEPT !.st = "emit", !.todo = RowSeq(ListUpdated(tx))]
               /\ UNCHANGED <<chClosed, grpDone, grpErr>>
    /\ UNCHANGED <<dbVars, blobs, remoteVars, cancelled, pc, cons, ch, localVars,
                   runs, result, calls>>
    /\ UNCHANGED testVars

\* tx.ListOutdated: the end of the rows (also when the cancelled context has
\* closed them), the handler's select seeing the context done, or a failed
\* scan. The send itself is P2First or P2WorkerRecv.
P2ProdEmit ==
    /\ pc \in {"p2_first", "p2_wait"}
    /\ prod.st = "emit"
    /\ \/ /\ prod.todo = << >> \/ CtxDone
          /\ ProdReturn("")
       \/ /\ prod.todo # << >>
          /\ CtxDone
          /\ ProdReturn("context")
       \/ /\ prod.todo # << >>
          /\ ProdReturn("db")
    /\ UNCHANGED <<dbVars, blobs, remoteVars, cancelled, pc, cons, ch, localVars,
                   runs, result, calls>>
    /\ UNCHANGED testVars

\* The rows left once the i-th of them has been scanned.
Without(seq, i) == [j \in 1 .. Len(seq) - 1 |-> IF j < i THEN seq[j] ELSE seq[j + 1]]

\* pullDownload's loop starting a worker that receives before it handles:
\* the id the loop received is dropped.
P2First_DropFirst ==
    /\ pc = "p2_first"
    /\ \/ /\ prod.st = "emit"
          /\ \E i \in 1 .. Len(prod.todo) :
                /\ cons' = [st |-> "recv", todo |-> << >>, id |-> MkID(0, 0)]
                /\ prod' = [prod EXCEPT !.todo = Without(@, i)]
       \/ /\ chClosed
          /\ UNCHANGED <<cons, prod>>
    /\ pc' = "p2_wait"
    /\ UNCHANGED <<dbVars, blobs, remoteVars, cancelled, grpDone, grpErr, ch,
                   chClosed, localVars, runs, result, calls>>
    /\ UNCHANGED testVars

\* id, ok := <-ids in pullDownload's loop (concurrency = 1): the producer's
\* send meets the receive and the worker is started with the id, or the
\* channel is closed and no worker is started.
P2First ==
    /\ pc = "p2_first"
    /\ \/ /\ prod.st = "emit"
          /\ \E i \in 1 .. Len(prod.todo) :
                /\ cons' = [st |-> "handle", todo |-> << >>, id |-> prod.todo[i]]
                /\ prod' = [prod EXCEPT !.todo = Without(@, i)]
       \/ /\ chClosed
          /\ UNCHANGED <<cons, prod>>
    /\ pc' = "p2_wait"
    /\ UNCHANGED <<dbVars, blobs, remoteVars, cancelled, grpDone, grpErr, ch,
                   chClosed, localVars, runs, result, calls>>
    /\ UNCHANGED testVars

\* The worker: handleOutdatedMessage for the id it holds.
P2WorkerHandle ==
    /\ pc = "p2_wait"
    /\ cons.st = "handle"
    /\ \E answer \in RemoteGetAnswers(remoteKind[cons.id.PermID], remoteAdded[cons.id.PermID]),
          ins \in InsertOutcomes(blobs, cons.id.PermID) :
          LET r == handleOutdatedMessage(tx, blobs, CtxDone, cons.id, answer, ins)
              e == WorkerError(IF r.err = NoErr THEN "" ELSE r.err.type)
          IN /\ blobs' = r.blobs
             /\ tx' = r.tx
             /\ calls' = calls \cup r.calls
                            \cup (IF r.err = NoErr THEN {} ELSE {<<"handleError", cons.id.PermID>>})
                            \cup (IF r.err = ErrMessageNotFound
                                  THEN {<<"NotFound", cons.id.PermID>>} ELSE {})
             /\ IF e = ""
                THEN /\ cons' = [cons EXCEPT !.st = "recv", !.id = MkID(0, 0)]
                     /\ UNCHANGED <<grpDone, grpErr>>
                ELSE ConsReturn(e)
    /\ UNCHANGED <<db, txOpen, remoteVars, cancelled, pc, prod, ch, chClosed,
                   localVars, runs, result>>
    /\ UNCHANGED testVars

\* The worker: id, ok = <-ids.
P2WorkerRecv ==
    /\ pc = "p2_wait"
    /\ cons.st = "recv"
    /\ \/ /\ prod.st = "emit"
          /\ \E i \in 1 .. Len(prod.todo) :
                /\ cons' = [cons EXCEPT !.st = "handle", !.id = prod.todo[i]]
                /\ prod' = [prod EXCEPT !.todo = Without(@, i)]
          /\ UNCHANGED <<grpDone, grpErr>>
       \/ /\ chClosed
          /\ ConsReturn("")
          /\ UNCHANGED prod
    /\ UNCHANGED <<dbVars, blobs, remoteVars, cancelled, pc, ch, chClosed,
                   localVars, runs, result, calls>>
    /\ UNCHANGED testVars

\* grp.Wait() in pullDownload.
P2Wait ==
    /\ pc = "p2_wait"
    /\ prod.st = "done"
    /\ cons.st \in {"off", "done"}
    /\ IF grpErr # ""
       THEN Finish("error")
       ELSE /\ pc' = "p2_commit"
            /\ prod' = TaskOff
            /\ cons' = TaskOff
            /\ grpDone' = FALSE
            /\ UNCHANGED <<tx, txOpen, grpErr, ch, chClosed, localVars, result>>
    /\ UNCHANGED <<db, blobs, remoteVars, cancelled, runs, calls>>
    /\ UNCHANGED testVars

\* return tx.Commit() in pullDownload, and Sync's return.
P2Commit ==
    /\ pc = "p2_commit"
    /\ \E fails \in {cancelled, TRUE} :
          IF fails
          THEN /\ Finish("error")
               /\ UNCHANGED <<db, calls>>
          ELSE /\ db' = tx
               /\ Call("Commit2", 0)
               /\ Finish("ok")
    /\ UNCHANGED <<blobs, remoteVars, cancelled, runs>>
    /\ UNCHANGED testVars

(***************************************************************************)
(* The specification of the Sync engine.                                   *)
(***************************************************************************)
Environment == RemoteAdd \/ RemoteReset \/ Cancel \/ Crash

Phase1 ==
    \/ P1Begin \/ P1Latest \/ P1Profile \/ P1Compare \/ P1Write
    \/ P1ProdStart \/ P1ProdEmit \/ P1ConsRecv
    \/ P1Wait \/ P1Commit

Phase2 ==
    \/ P2Begin \/ P2ProdStart \/ P2ProdEmit \/ P2First
    \/ P2WorkerHandle \/ P2WorkerRecv \/ P2Wait \/ P2Commit

Next == SyncStart \/ Phase1 \/ Phase2 \/ Environment

Spec == Init /\ [][Next]_vars

(***************************************************************************)
(* The Metadata Store on its own: any sequence of transactions a client    *)
(* of internal/persist can make. calls holds the last operation and its    *)
(* argument, result whether it returned an error.                          *)
(***************************************************************************)
\* The messages and headers the client passes (one message is enough for
\* the cursor's properties).
PersistIds == {1}

Headers ==
    [PermID : PersistIds, HistoryID : {0, 1}, SizeEstimate : {1},
     LabelIDs : {{}, {"INBOX"}}]

persistRest == <<blobs, remoteVars, cancelled, taskVars, pc, localVars, runs>>

PersistBegin ==
    /\ ~txOpen
    /\ tx' = db
    /\ txOpen' = TRUE
    /\ calls' = {<<"Begin", 0>>}
    /\ result' = "ok"
    /\ UNCHANGED <<db, persistRest>>
    /\ UNCHANGED testVars

PersistWriteHistoryID ==
    /\ txOpen
    /\ \E v \in Uints :
          LET r == WriteHistoryID(tx, v)
          IN /\ tx' = r.tx
             /\ result' = IF r.err THEN "error" ELSE "ok"
             /\ calls' = {<<"WriteHistoryID", v>>}
    /\ UNCHANGED <<db, txOpen, persistRest>>
    /\ UNCHANGED testVars

PersistInsertMessageID ==
    /\ txOpen
    /\ \E p \in PersistIds :
          /\ tx' = InsertMessageID(tx, MkID(p, ThreadOf(p)))
          /\ calls' = {<<"InsertMessageID", p>>}
    /\ result' = "ok"
    /\ UNCHANGED <<db, txOpen, persistRest>>
    /\ UNCHANGED testVars

PersistUpdateHeader ==
    /\ txOpen
    /\ \E hdr \in Headers :
          /\ tx' = UpdateHeader(tx, hdr)
          /\ calls' = {<<"UpdateHeader", hdr.PermID>>}
    /\ result' = "ok"
    /\ UNCHANGED <<db, txOpen, persistRest>>
    /\ UNCHANGED testVars

PersistCommit ==
    /\ txOpen
    /\ db' = tx
    /\ tx' = EmptyDB
    /\ txOpen' = FALSE
    /\ calls' = {<<"Commit", 0>>}
    /\ result' = "ok"
    /\ UNCHANGED persistRest
    /\ UNCHANGED testVars

PersistRollback ==
    /\ txOpen
    /\ tx' = EmptyDB
    /\ txOpen' = FALSE
    /\ calls' = {<<"Rollback", 0>>}
    /\ result' = "ok"
    /\ UNCHANGED <<db, persistRest>>
    /\ UNCHANGED testVars

NextPersist ==
    \/ PersistBegin \/ PersistWriteHistoryID \/ PersistInsertMessageID
    \/ PersistUpdateHeader \/ PersistCommit \/ PersistRollback

SpecPersist == Init /\ [][NextPersist]_vars

(***************************************************************************)
(* The message rows of the Metadata Store on their own, driven the way the *)
(* tests of internal/persist drive them: a transaction is begun, ids are   *)
(* inserted and headers stored in it, and it is committed or rolled back;  *)
(* when a call fails the test stops and its deferred Rollback runs.  A     *)
(* call can fail at each of its statements, the earlier ones having acted. *)
(***************************************************************************)
RowIds == {1, 2}

RowMsgs == {MkID(1, 1), MkID(1, 2), MkID(2, 1)}

Hdr(p, ls) == [PermID |-> p, HistoryID |-> 1, SizeEstimate |-> 1, LabelIDs |-> ls]

RowHeaders == {Hdr(1, {}), Hdr(1, {"a"}), Hdr(1, {"a", "b"}), Hdr(2, {"a"}),
               [Hdr(1, {}) EXCEPT !.HistoryID = MaxUint]}

\* The arguments of the last call.
NoArgs == [PermID |-> 0, ThreadID |-> 0, HistoryID |-> 0, SizeEstimate |-> 0,
           LabelIDs |-> {}]

InsertArgs(msg) == [NoArgs EXCEPT !.PermID = msg.PermID, !.ThreadID = msg.ThreadID]

HeaderArgs(hdr) == [NoArgs EXCEPT !.PermID = hdr.PermID, !.HistoryID = hdr.HistoryID,
                                  !.SizeEstimate = hdr.SizeEstimate,
                                  !.LabelIDs = hdr.LabelIDs]

\* InsertMessageID: the upsert fails, or the upsert acts and the delete of
\* the labels fails, or both act.
InsertMessageIDOutcomes(t, msg) ==
    {[err |-> FALSE, tx |-> InsertMessageID(t, msg)],
     [err |-> TRUE, tx |-> t],
     [err |-> TRUE, tx |-> [InsertMessageID(t, msg) EXCEPT !.labels = t.labels]]}

\* UpdateHeader: hdr.HistoryID is passed to ExecContext as it is, a uint64,
\* and database/sql refuses a uint64 with the high bit set before the
\* statement runs. Otherwise the update fails, or it acts and the delete of
\* the labels fails, or both act and one of the label inserts fails, or all
\* act.
UpdateHeaderOutcomes(t, hdr) ==
    LET p == hdr.PermID
        done == UpdateHeader(t, hdr)
        unlabelled == {l \in t.labels : l[1] # p}
    IN IF hdr.HistoryID >= Half
       THEN {[err |-> TRUE, tx |-> t]}
       ELSE {[err |-> FALSE, tx |-> done],
             [err |-> TRUE, tx |-> t],
             [err |-> TRUE, tx |-> [done EXCEPT !.labels = t.labels]]}
            \cup {[err |-> TRUE,
                   tx |-> [done EXCEPT !.labels = unlabelled \cup {<<p, l>> : l \in L}]] :
                     L \in (SUBSET hdr.LabelIDs) \ {hdr.LabelIDs}}

InitRows ==
    /\ InitStores
    /\ input = NoArgs
    /\ output = {}

rowsRest == <<blobs, remoteVars, cancelled, taskVars, pc, localVars, runs>>

RowsBegin ==
    /\ ~txOpen
    /\ tx' = db
    /\ txOpen' = TRUE
    /\ calls' = {<<"Begin", 0>>}
    /\ result' = "ok"
    /\ input' = NoArgs
    /\ UNCHANGED <<db, output, rowsRest>>

RowsInsertMessageID ==
    /\ txOpen
    /\ result = "ok"
    /\ \E msg \in RowMsgs :
       \E r \in InsertMessageIDOutcomes(tx, msg) :
          /\ tx' = r.tx
          /\ result' = IF r.err THEN "error" ELSE "ok"
          /\ calls' = {<<"InsertMessageID", msg.PermID>>}
          /\ input' = InsertArgs(msg)
    /\ UNCHANGED <<db, txOpen, output, rowsRest>>

RowsUpdateHeader ==
    /\ txOpen
    /\ result = "ok"
    /\ \E hdr \in RowHeaders :
       \E r \in UpdateHeaderOutcomes(tx, hdr) :
          /\ tx' = r.tx
          /\ result' = IF r.err THEN "error" ELSE "ok"
          /\ calls' = {<<"UpdateHeader", hdr.PermID>>}
          /\ input' = HeaderArgs(hdr)
    /\ UNCHANGED <<db, txOpen, output, rowsRest>>

\* dbFixture.ListUpdated: a transaction of its own that lists and is rolled
\* back.
RowsListUpdated ==
    /\ ~txOpen
    /\ output' = ListUpdated(db)
    /\ calls' = {<<"ListUpdated", 0>>}
    /\ result' = "ok"
    /\ input' = NoArgs
    /\ UNCHANGED <<dbVars, rowsRest>>

RowsCommit ==
    /\ txOpen
    /\ result = "ok"
    /\ db' = tx
    /\ tx' = EmptyDB
    /\ txOpen' = FALSE
    /\ calls' = {<<"Commit", 0>>}
    /\ input' = NoArgs
    /\ UNCHANGED <<result, output, rowsRest>>

RowsRollback ==
    /\ txOpen
    /\ tx' = EmptyDB
    /\ txOpen' = FALSE
    /\ calls' = {<<"Rollback", 0>>}
    /\ result' = "ok"
    /\ input' = NoArgs
    /\ UNCHANGED <<db, output, rowsRest>>

NextRows ==
    \/ RowsBegin \/ RowsInsertMessageID \/ RowsUpdateHeader
    \/ RowsListUpdated \/ RowsCommit \/ RowsRollback

SpecRows == InitRows /\ [][NextRows]_vars

(***************************************************************************)
(* The bias encoding on its own, as TestOrdered and FuzzOrdered exercise   *)
(* it: u is encoded and decoded again, u + inc (modulo the width) is       *)
(* encoded and compared, and a signed s is decoded and encoded again.      *)
(***************************************************************************)
Signed == (0 - Half) .. (Half - 1)

InitOrdered ==
    /\ InitStores
    /\ input \in [u : Uints, inc : Uints, s : Signed]
    /\ output = [stage |-> "input", s |-> 0, back |-> 0, uinc |-> 0, sinc |-> 0,
                 u0 |-> 0, s0 |-> 0]

orderedRest == <<dbVars, blobs, remoteVars, cancelled, taskVars, pc, localVars,
                 runs, result, calls, input>>

\* s := orderedToSigned(u)
OrderedEncode ==
    /\ output.stage = "input"
    /\ output' = [output EXCEPT !.stage = "signed", !.s = orderedToSigned(input.u)]
    /\ UNCHANGED orderedRest

\* orderedToUnsigned(s)
OrderedDecode ==
    /\ output.stage = "signed"
    /\ output' = [output EXCEPT !.stage = "back", !.back = orderedToUnsigned(output.s)]
    /\ UNCHANGED orderedRest

\* uinc := u + inc; sinc := orderedToSigned(uinc)
OrderedInc ==
    /\ output.stage = "back"
    /\ LET uinc == (input.u + input.inc) % Mod
       IN output' = [output EXCEPT !.stage = "inc", !.uinc = uinc,
                                   !.sinc = orderedToSigned(uinc)]
    /\ UNCHANGED orderedRest

\* TestOrdered's other direction: u := orderedToUnsigned(tc.s), and back.
OrderedFromSigned ==
    /\ output.stage = "inc"
    /\ LET u0 == orderedToUnsigned(input.s)
       IN output' = [output EXCEPT !.stage = "done", !.u0 = u0,
                                   !.s0 = orderedToSigned(u0)]
    /\ UNCHANGED orderedRest

NextOrdered == OrderedEncode \/ OrderedDecode \/ OrderedInc \/ OrderedFromSigned

SpecOrdered == InitOrdered /\ [][NextOrdered]_vars

(***************************************************************************)
(* basename.encode on its own, as TestBasenameEncode exercises it: for a   *)
(* scope and a perm id, the encoded name.                                  *)
(***************************************************************************)
\* Bytes the names are made of: 'A', 'z', '0', '=', '-' and newline.
NameBytes == {65, 122, 48, 61, 45, 10}

Strs(S, n) == UNION {[1 .. k -> S] : k \in 0 .. n}

\* The cases of TestBasenameEncode: {"scope", "permId"} and the bytes of
\* a non-ASCII scope with the perm id "\n\t\a".
TestBasenames ==
    {[scope |-> <<115, 99, 111, 112, 101>>, permID |-> <<112, 101, 114, 109, 73, 100>>],
     [scope |-> <<231, 171, 185>>, permID |-> <<10, 9, 7>>]}

Basenames ==
    [scope : Strs(NameBytes, MaxNameLen), permID : Strs(NameBytes, MaxNameLen)]
       \cup TestBasenames

InitEncode ==
    /\ InitStores
    /\ input \in Basenames
    /\ output = [done |-> FALSE, name |-> << >>]

\* got := tc.name.encode()
EncodeName ==
    /\ ~output.done
    /\ output' = [done |-> TRUE, name |-> encode(input)]
    /\ UNCHANGED <<dbVars, blobs, remoteVars, cancelled, taskVars, pc, localVars,
                   runs, result, calls, input>>

NextEncode == EncodeName

SpecEncode == InitEncode /\ [][NextEncode]_vars

(***************************************************************************)

(* mkdirfarm on its own, as TestMkDirFarm and New use it: the farm is made *)
(* under a root where nothing, a part of the farm or the whole farm        *)
(* exists, and made again.                                                 *)
(***************************************************************************)
FarmLetters == {pathFarm16[i] : i \in 1 .. Len(pathFarm16)}

FarmDirs == {<< >>} \cup {<<x>> : x \in FarmLetters}
                    \cup {<<x, y>> : x \in FarmLetters, y \in FarmLetters}

LetterIndex(x) == CHOOSE i \in 1 .. Len(pathFarm16) : pathFarm16[i] = x

\* The place of a directory in the order mkdirfarm makes them in.
FarmPos(d) ==
    IF Len(d) = 0 THEN 0
    ELSE 1 + (LetterIndex(d[1]) - 1) * (Len(pathFarm16) + 1)
           + (IF Len(d) = 2 THEN LetterIndex(d[2]) ELSE 0)

\* What exists before the farm is made: the first n directories an
\* interrupted mkdirfarm has made, or the farm with one directory of the
\* second level missing, or one path alone.
PartialFarms ==
    {{d \in FarmDirs : FarmPos(d) < n} : n \in 0 .. Cardinality(FarmDirs)}
       \cup {FarmDirs \ {<<x, x>>} : x \in FarmLetters}
       \cup {{<< >>, <<"m">>, <<"m", "c">>}}

\* The directories os.Mkdir can fail for.
BadDirs == {NoDir, << >>, <<"a">>, <<"a", "b">>, <<"m", "c">>, <<"p", "p">>}

InitFarm ==
    /\ InitStores
    /\ input = [bad |-> NoDir, before |-> {}]
    /\ output \in [n : {0}, err : {FALSE}, fs : PartialFarms]

\* mkdirfarm(farm, 2)
MkDirFarm ==
    /\ output.n < MaxRuns
    /\ \E bad \in BadDirs :
          LET r == mkdirfarm(output.fs, << >>, FarmDepth, bad)
          IN /\ output' = [n |-> output.n + 1, err |-> r.err, fs |-> r.fs]
             /\ input' = [bad |-> bad, before |-> output.fs]
    /\ UNCHANGED <<dbVars, blobs, remoteVars, cancelled, taskVars, pc, localVars,
                   runs, result, calls>>

NextFarm == MkDirFarm

SpecFarm == InitFarm /\ [][NextFarm]_vars

(***************************************************************************)

(* The Blob Store on its own: Services made for two accounts insert        *)
(* bodies, valid or not, into the same notmuch database.                   *)
(***************************************************************************)
Accounts == {"A", "B"}

\* Bytes of the bodies: CR, LF and 'x'.
RawBytes == {13, 10, 120}

\* The bodies: messages "a" and "b" and the empty perm id, with the content
\* "x", the content CR LF "x" and no content.
Bodies == [PermID : {<<97>>, <<98>>, << >>}, Raw : {<<120>>, <<13, 10, 120>>, << >>}]

NoFiles == [q \in {} |-> << >>]

InitBlob ==
    /\ InitStores
    /\ input = [account |-> "A", msg |-> [PermID |-> << >>, Raw |-> << >>]]
    /\ output = [err |-> FALSE, files |-> NoFiles]

\* nm.Insert(ctx, msg) on the Service of an account.
BlobInsert ==
    /\ \E account \in Accounts :
       \E msg \in Bodies :
       \E r \in Insert(output.files, NewService(account), msg) :
          /\ output' = [err |-> r.err, files |-> r.files]
          /\ input' = [account |-> account, msg |-> msg]
    /\ UNCHANGED <<dbVars, blobs, remoteVars, cancelled, taskVars, pc, localVars,
                   runs, result, calls>>

NextBlob == BlobInsert

SpecBlob == InitBlob /\ [][NextBlob]_vars

(***************************************************************************)
(* Service.Insert on its own: one body of message "a", of every content up *)
(* to MaxRawLen bytes, is inserted into an empty store.                    *)
(***************************************************************************)
InitFold ==
    /\ InitStores
    /\ input \in [account : {"A"}, msg : [PermID : {<<97>>}, Raw : Strs(RawBytes, MaxRawLen)]]
    /\ output = [err |-> FALSE, files |-> NoFiles]

FoldInsert ==
    /\ ~output.err
    /\ DOMAIN output.files = {}
    /\ \E r \in Insert(output.files, NewService(input.account), input.msg) :
          output' = [err |-> r.err, files |-> r.files]
    /\ UNCHANGED <<dbVars, blobs, remoteVars, cancelled, taskVars, pc, localVars,
                   runs, result, calls, input>>

NextFold == FoldInsert

SpecFold == InitFold /\ [][NextFold]_vars

(***************************************************************************)

(* The cursors of the Metadata Store used for two accounts: the Sync of an *)
(* account begins a transaction on the one database, writes history ids in *)
(* it and commits or rolls back.  output.own holds, for each account, the  *)
(* history ids it has written and committed, output.pending those written  *)
(* in the open transaction; input is the last call: the account, the       *)
(* history id and what the account had written before the call.            *)
(***************************************************************************)
InitAccounts ==
    /\ InitStores
    /\ input = [account |-> "A", v |-> 0, before |-> {}]
    /\ output = [own |-> [a \in Accounts |-> {}], pending |-> {}]

accountsRest == <<blobs, remoteVars, cancelled, taskVars, pc, localVars, runs>>

AccountsBegin ==
    /\ ~txOpen
    /\ \E a \in Accounts :
          input' = [account |-> a, v |-> 0, before |-> output.own[a]]
    /\ tx' = db
    /\ txOpen' = TRUE
    /\ calls' = {<<"Begin", 0>>}
    /\ result' = "ok"
    /\ output' = [output EXCEPT !.pending = {}]
    /\ UNCHANGED <<db, accountsRest>>

AccountsWriteHistoryID ==
    /\ txOpen
    /\ \E v \in Uints :
          LET r == WriteHistoryID(tx, v)
          IN /\ tx' = r.tx
             /\ result' = IF r.err THEN "error" ELSE "ok"
             /\ calls' = {<<"WriteHistoryID", v>>}
             /\ input' = [input EXCEPT !.v = v,
                             !.before = output.own[input.account] \cup output.pending]
             /\ output' = IF r.err THEN output
                          ELSE [output EXCEPT !.pending = @ \cup {v}]
    /\ UNCHANGED <<db, txOpen, accountsRest>>

AccountsCommit ==
    /\ txOpen
    /\ db' = tx
    /\ tx' = EmptyDB
    /\ txOpen' = FALSE
    /\ calls' = {<<"Commit", 0>>}
    /\ result' = "ok"
    /\ output' = [own |-> [output.own EXCEPT ![input.account] = @ \cup output.pending],
                  pending |-> {}]
    /\ UNCHANGED <<input, accountsRest>>

AccountsRollback ==
    /\ txOpen
    /\ tx' = EmptyDB
    /\ txOpen' = FALSE
    /\ calls' = {<<"Rollback", 0>>}
    /\ result' = "ok"
    /\ output' = [output EXCEPT !.pending = {}]
    /\ UNCHANGED <<db, input, accountsRest>>

NextAccounts ==
    AccountsBegin \/ AccountsWriteHistoryID \/ AccountsCommit \/ AccountsRollback

SpecAccounts == InitAccounts /\ [][NextAccounts]_vars

(***************************************************************************)

(* GmailService on its own: one operation of the MailStore, from its       *)
(* limiter.WaitN to its return.  input is the operation; output holds the  *)
(* caller's position (st), the tokens in the limiter, the tokens granted   *)
(* to the operation, the remote calls it has issued, the pages it has      *)
(* received, the calls of WaitN that passed its entry checks (waits) and   *)
(* the error it returns.  Time passing refills the limiter;                *)
(* the context can be cancelled at any moment.                             *)
(***************************************************************************)
GmailOps == {"ListAll", "ListFrom", "GetMessageHeader", "GetMessageFull", "GetProfile"}

\* The quota units each operation waits for before a remote call.
QuotaUnits(op) ==
    CASE op = "ListAll" -> quotaUnitsPerMessagesList
      [] op = "ListFrom" -> quotaUnitsPerHistoryList
      [] op = "GetProfile" -> quotaUnitsPerGetProfile
      [] OTHER -> quotaUnitsMessagesGet

RateLimitedErr == GoogleApiError(429, {"rateLimitExceeded"})

LimiterErr == [type |-> "limiter", code |-> 0, reasons |-> {}]

\* What the remote answers to a call: for a list, a page with or without a
\* next page token; for a get, a message (mail or chat) or 404; the rate
\* limit status, a transport failure, and the context's error once it is
\* cancelled, for every call.
GmailAnswers(op, page, ctxDone) ==
    (IF op \in {"ListAll", "ListFrom"}
     THEN {[err |-> NoErr, more |-> m, LabelIds |-> {}, HistoryId |-> 0] :
              m \in IF page + 1 < MaxPages THEN {TRUE, FALSE} ELSE {FALSE}}
     ELSE IF op = "GetProfile"
     THEN {[err |-> NoErr, more |-> FALSE, LabelIds |-> {}, HistoryId |-> 1]}
     ELSE {[err |-> NoErr, more |-> FALSE, LabelIds |-> RemoteLabels(k), HistoryId |-> 1] :
              k \in {"mail", "chat"}}
          \cup {[err |-> GoogleApiError(404, {"notFound"}), more |-> FALSE,
                 LabelIds |-> {}, HistoryId |-> 0]})
    \cup {[err |-> e, more |-> FALSE, LabelIds |-> {}, HistoryId |-> 0] :
             e \in {RateLimitedErr, TransportErr} \cup (IF ctxDone THEN {CtxErr} ELSE {})}

\* The error an operation returns for the remote's answer.
GmailResult(op, answer) ==
    IF op \in {"GetMessageHeader", "GetMessageFull"}
    THEN GetMessageFull(FALSE, 1, answer).err
    ELSE answer.err

InitGmail ==
    /\ InitStores
    /\ input \in [op : GmailOps]
    /\ output \in [st : {"idle"}, tokens : 0 .. rateLimitBurst, granted : {0},
                   issued : {0}, page : {0}, waits : {0}, err : {NoErr}]

gmailRest == <<dbVars, blobs, remoteVars, taskVars, pc, localVars, runs, result,
               calls, input>>

\* limiter.WaitN is entered: it returns at once when the context is done
\* or when n exceeds the burst, and waits otherwise.
WaitNEnter(st) ==
    IF cancelled THEN [output EXCEPT !.st = "done", !.err = CtxErr]
    ELSE IF QuotaUnits(input.op) > rateLimitBurst
         THEN [output EXCEPT !.st = "done", !.err = LimiterErr]
         ELSE [output EXCEPT !.st = "wait", !.waits = @ + 1]

\* The operation starts: its first limiter.WaitN.
GmailStart ==
    /\ output.st = "idle"
    /\ output' = WaitNEnter("idle")
    /\ UNCHANGED <<cancelled, gmailRest>>

\* The limiter has the tokens: WaitN returns nil.
GmailGrant ==
    /\ output.st = "wait"
    /\ output.tokens >= QuotaUnits(input.op)
    /\ output' = [output EXCEPT !.st = "call",
                                !.tokens = @ - QuotaUnits(input.op),
                                !.granted = @ + QuotaUnits(input.op)]
    /\ UNCHANGED <<cancelled, gmailRest>>

\* The context is cancelled while WaitN waits: WaitN returns its error and
\* the operation returns it.
GmailWaitCancelled ==
    /\ output.st = "wait"
    /\ cancelled
    /\ output' = [output EXCEPT !.st = "done", !.err = CtxErr]
    /\ UNCHANGED <<cancelled, gmailRest>>

\* The remote call (one page request, or one get) and its answer.
GmailCall ==
    /\ output.st = "call"
    /\ \E answer \in GmailAnswers(input.op, output.page, cancelled) :
          output' = IF answer.err = NoErr /\ answer.more
                    THEN [output EXCEPT !.st = "page", !.issued = @ + 1, !.page = @ + 1]
                    ELSE [output EXCEPT !.st = "done", !.issued = @ + 1,
                                        !.err = GmailResult(input.op, answer)]
    /\ UNCHANGED <<cancelled, gmailRest>>

\* A page with a next page token is followed by no wait.
GmailNextPage_NoWait ==
    /\ output.st = "page"
    /\ output' = [output EXCEPT !.st = "call"]
    /\ UNCHANGED <<cancelled, gmailRest>>

\* A page with a next page token has been handled: limiter.WaitN before
\* the next page is requested.
GmailNextPage ==
    /\ output.st = "page"
    /\ output' = WaitNEnter("page")
    /\ UNCHANGED <<cancelled, gmailRest>>

\* Time passes: the limiter gains a token.
GmailRefill ==
    /\ output.tokens < rateLimitBurst
    /\ output.st # "done"
    /\ output' = [output EXCEPT !.tokens = @ + 1]
    /\ UNCHANGED <<cancelled, gmailRest>>

GmailCancel ==
    /\ ~cancelled
    /\ output.st # "done"
    /\ cancelled' = TRUE
    /\ UNCHANGED <<output, gmailRest>>

NextGmail ==
    \/ GmailStart \/ GmailGrant \/ GmailWaitCancelled \/ GmailCall
    \/ GmailNextPage \/ GmailRefill \/ GmailCancel

SpecGmail == InitGmail /\ [][NextGmail]_vars

(***************************************************************************)

(* New and makePath together: the Service is made (the farm with it), then *)
(* the path of a perm id is computed.  input is the perm id; output holds  *)
(* the step (st), the directories that exist (fs) and the path computed.   *)
(***************************************************************************)
NoPath == [root |-> << >>, dirs |-> << >>, base |-> << >>]

InitShard ==
    /\ InitStores
    /\ input \in [id : Strs(NameBytes, MaxNameLen) \cup {t.permID : t \in TestBasenames}]
    /\ output \in [st : {"start"}, fs : {{}, {<< >>, <<"m">>, <<"m", "c">>}},
                   path : {NoPath}]

shardRest == <<dbVars, blobs, remoteVars, cancelled, taskVars, pc, localVars,
               runs, result, calls, input>>

\* New: mkdirfarm(s.path, 2); no Service is returned when it fails.
ShardNew ==
    /\ output.st = "start"
    /\ \E bad \in {NoDir, << >>, <<"a", "b">>, <<"p", "p">>} :
          LET r == mkdirfarm(output.fs, << >>, FarmDepth, bad)
          IN output' = [output EXCEPT !.st = IF r.err THEN "failed" ELSE "made",
                                      !.fs = r.fs]
    /\ UNCHANGED shardRest

\* s.makePath(id), as HaveMessage and Insert call it.
ShardMakePath ==
    /\ output.st = "made"
    /\ output' = [output EXCEPT !.st = "path",
                                !.path = makePath(NewService("A"), input.id)]
    /\ UNCHANGED shardRest

NextShard == ShardNew \/ ShardMakePath

SpecShard == InitShard /\ [][NextShard]_vars

(***************************************************************************)

(* basename.encode of two basenames, to compare the names.  The fields are *)
(* made of 'A', '3', the separator '-' and the escape marker '='.          *)
(***************************************************************************)
PairBytes == {65, 51, 45, 61}

PairFields == Strs(PairBytes, MaxPairLen)

InitPair ==
    /\ InitStores
    /\ input \in [a : [scope : PairFields, permID : PairFields],
                  b : [scope : PairFields, permID : PairFields]]
    /\ output = [done |-> FALSE, a |-> << >>, b |-> << >>]

\* a.encode() and b.encode()
EncodePair ==
    /\ ~output.done
    /\ output' = [done |-> TRUE, a |-> encode(input.a), b |-> encode(input.b)]
    /\ UNCHANGED <<dbVars, blobs, remoteVars, cancelled, taskVars, pc, localVars,
                   runs, result, calls, input>>

SpecPair == InitPair /\ [][EncodePair]_vars

(***************************************************************************)

(* The properties.                                                         *)
(***************************************************************************)
\* The refresh-flagged rows of a database state.
Flagged(t) == {p \in DOMAIN t.rows : t.rows[p].history = NULL}

\* C1: phase 1 is atomic. A step of phase 1 changes the committed database
\* only if it is the commit, and what the commit makes visible is the whole
\* of the run's phase 1: the cursor equal to the profile's history id and
\* every id the MailStore listed refresh-flagged. Every other step of phase 1
\* (a failure, a cancellation, a crash among them) leaves the committed
\* database, hence LatestHistoryID and the flagged rows, as it was.
C1_Phase1Atomic ==
    [][Phase = 1 =>
          IF pc = "p1_commit" /\ pc' = "p2_begin"
          THEN /\ db' = tx
               /\ LatestHistoryID(db') = profile
               /\ listed \subseteq Flagged(db')
          ELSE db' = db]_vars

\* C1: phase 1 was abandoned after an id was inserted, and the committed
\* database is still the empty one.
C1_Witness ==
    /\ pc = "idle"
    /\ result \in {"error", "crash"}
    /\ <<"WriteHistoryID", 0>> \in calls
    /\ \E p \in PermIds : <<"InsertMessageID", p>> \in calls
    /\ <<"Commit1", 0>> \notin calls
    /\ db = EmptyDB

\* C2: WriteHistoryID(v) returns no error exactly when v is greater than
\* LatestHistoryID; then v is the new LatestHistoryID of the transaction,
\* and a rejected call leaves the transaction as it was. The committed
\* LatestHistoryID never decreases, and a transaction that begins reads the
\* committed value.
C2_CursorMonotonic ==
    [][/\ \A v \in Uints :
             calls' = {<<"WriteHistoryID", v>>} =>
                /\ (result' = "ok") <=> (v > LatestHistoryID(tx))
                /\ (result' = "ok") => LatestHistoryID(tx') = v
                /\ (result' # "ok") => tx' = tx
       /\ LatestHistoryID(db') >= LatestHistoryID(db)
       /\ (txOpen' /\ ~txOpen) => LatestHistoryID(tx') = LatestHistoryID(db)]_vars

\* C2: a cursor was written and committed, and a later transaction has had
\* a write of the same value rejected.
C2_Witness ==
    /\ txOpen
    /\ LatestHistoryID(db) > 0
    /\ result = "error"
    /\ calls = {<<"WriteHistoryID", LatestHistoryID(db)>>}
    /\ tx = db

\* C3: convergence. A run that returned success against a remote that did
\* not change while it ran leaves the cursor equal to the remote's history
\* id, and every stored row of a message the remote can return with a blob
\* and a non-NULL history_id.
C3_Converged ==
    (pc = "idle" /\ result = "ok" /\ lastChangeRun < runs) =>
        /\ LatestHistoryID(db) = remoteHistory
        /\ \A p \in DOMAIN db.rows :
              remoteKind[p] = "mail" =>
                 /\ blobs[p] = "full"
                 /\ db.rows[p].history # NULL

C5_ErrorNotDropped ==
    \A p \in PermIds :
       (<<"handleError", p>> \in calls /\ <<"NotFound", p>> \notin calls) =>
           ~(pc = "idle" /\ result = "ok")

\* C6: NotFound is recovered locally. After a run that returned success, an
\* id for which the MailStore reported NotFound has no blob, its handling
\* returned no error, and its row holds the sentinel history_id 0, so that
\* ListUpdated yields it no more.
C6_NotFoundSentinel ==
    \A p \in PermIds :
       (pc = "idle" /\ result = "ok" /\ <<"NotFound", p>> \in calls) =>
           /\ <<"handleError", p>> \notin calls
           /\ blobs[p] = "absent"
           /\ p \in DOMAIN db.rows
           /\ db.rows[p].history = Some(0)
           /\ p \notin Flagged(db)

\* C7: idempotent resync. A run that follows a successful run, the remote
\* unchanged since that run began, issues no GetMessageFull and writes no
\* blob.
C7_IdempotentResync ==
    (result = "resync" /\ lastChangeRun < runs - 1) =>
        \A p \in PermIds :
           /\ <<"GetMessageFull", p>> \notin calls
           /\ <<"Insert", p>> \notin calls

\* C8: incremental no-op. Once phase 1 has found the stored cursor non-zero
\* and equal to the profile's history id, it goes straight to the commit:
\* GetProfile is the only call it made, nothing was listed, and the
\* transaction it commits is the committed database unchanged.
C8_IncrementalNoOp ==
    (Phase = 1 /\ pc # "p1_compare" /\ historyId # 0 /\ historyId = profile) =>
        /\ pc = "p1_commit"
        /\ calls = {<<"GetProfile", 0>>}
        /\ listed = {}
        /\ tx = db
        /\ LatestHistoryID(tx) = historyId

\* C8: the second run found the cursor equal to the profile's and is about
\* to commit.
C8_Witness ==
    /\ pc = "p1_commit"
    /\ historyId # 0
    /\ historyId = profile
    /\ runs > 1
    /\ db.rows # NoRows

\* C9: history reset. When the stored cursor is greater than the profile's
\* history id, the step Sync takes from the comparison ends the run: Sync
\* returns an error, the transaction is rolled back, the committed database
\* is unchanged, GetProfile is the only call made and phase 2 is not entered.
\* (A kill of the process is the one other way the run can end there.)
C9_HistoryReset ==
    [][(pc = "p1_compare" /\ historyId > profile /\ pc' # pc /\ result' # "crash") =>
          /\ pc' = "idle"
          /\ result' = "error"
          /\ ~txOpen'
          /\ db' = db
          /\ calls' = {<<"GetProfile", 0>>}]_vars

\* C9: a run has read a profile whose history id is below the stored cursor.
C9_Witness ==
    /\ pc = "p1_compare"
    /\ historyId > profile
    /\ LatestHistoryID(db) = historyId
    /\ remoteHistory = profile

\* C10: a run in which the cancellation token fired ends with Sync
\* returning an error (unless the process is killed).
C10_CancelReturnsError ==
    (pc = "idle" /\ cancelled /\ result # "crash") => result = "error"

\* C17: the bias encoding. Decoding the encoding of u gives u back (and
\* encoding the decoding of s gives s back); the encoding is a signed value
\* of the width, with 0 encoded as the least one, 2^(w-1) as 0 and 2^w - 1 as
\* the greatest one; and u < u + inc (modulo 2^w) exactly when the encoding
\* of the first is below the encoding of the second.
C17_BiasEncoding ==
    /\ output.stage # "input" =>
          /\ output.s \in Signed
          /\ input.u = 0 => output.s = 0 - Half
          /\ input.u = Half => output.s = 0
          /\ input.u = MaxUint => output.s = Half - 1
    /\ output.stage \in {"back", "inc", "done"} => output.back = input.u
    /\ output.stage \in {"inc", "done"} =>
          ((input.u < output.uinc) <=> (output.s < output.sinc))
    /\ output.stage = "done" =>
          /\ output.u0 \in Uints
          /\ output.s0 = input.s

\* C17: a cursor in the upper half of the range whose increment wrapped
\* around has been encoded, decoded and compared.
C17_Witness ==
    /\ output.stage = "done"
    /\ input.u >= Half
    /\ input.u + input.inc >= Mod
    /\ output.uinc < input.u
    /\ output.sinc < output.s

\* The ids handleOutdatedMessage was invoked for in the run.
Handled == {p \in PermIds : <<"Have", p>> \in calls \/ <<"GetMessageFull", p>> \in calls}

\* C11: phase 2 works in batches. While a phase-2 transaction is open, the
\* handler has been invoked for at most Batch rows in it.
C11_BatchLimit ==
    (pc \in {"p2_wait", "p2_commit"}) => Cardinality(Handled) <= Batch

\* C12: phase 2 drains the flag. When pull-download has committed and
\* returned success in a run whose every fetch succeeded or was answered
\* NotFound, no row is refresh-flagged.
C12_Drained ==
    (/\ pc = "idle"
     /\ <<"Commit2", 0>> \in calls
     /\ \A p \in PermIds : <<"handleError", p>> \in calls => <<"NotFound", p>> \in calls)
    => Flagged(db) = {}

\* C18: blob presence short-circuit. An id handled while its blob file
\* existed had exactly one header fetch and no full fetch issued for it, and
\* the header was passed to Tx.UpdateHeader.
C18_ShortCircuit ==
    \A p \in PermIds :
       <<"Have", p>> \in calls =>
          /\ <<"GetMessageHeader", p>> \in calls
          /\ <<"UpdateHeader", p>> \in calls
          /\ <<"GetMessageFull", p>> \notin calls
          /\ <<"Insert", p>> \notin calls

\* C19: the Blob Store is append-only under Sync. In every step, a blob
\* file that exists stays as it is, and no GetMessageFull and no Insert is
\* issued for its perm id.
C19_AppendOnly ==
    [][\A p \in PermIds :
          blobs[p] # "absent" =>
             /\ blobs'[p] = blobs[p]
             /\ <<"GetMessageFull", p>> \in calls' => <<"GetMessageFull", p>> \in calls
             /\ <<"Insert", p>> \in calls' => <<"Insert", p>> \in calls]_vars

\* C19: in a second run, a flagged row whose body an earlier run wrote has
\* been handled with nothing fetched and nothing written.
C19_Witness ==
    /\ runs = 2
    /\ \E p \in PermIds :
          /\ blobs[p] = "full"
          /\ <<"Have", p>> \in calls
          /\ <<"GetMessageFull", p>> \notin calls

\* C20: Has agrees with Insert. Has(p) becomes true only in a step in which
\* an Insert of p succeeded (the blob of p is then the whole body).
C20_HasOnlyAfterInsert ==
    [][\A p \in PermIds :
          (~HaveMessage(blobs, p) /\ HaveMessage(blobs', p)) =>
             (blobs'[p] = "full" /\ <<"Insert", p>> \in calls')]_vars

\* What ListUpdated yields for perm id p in the database t.
ListedFor(t, p) == {id \in ListUpdated(t) : id.PermID = p}

LabelsOf(t, p) == {l \in t.labels : l[1] = p}

LabelsNotOf(t, p) == {l \in t.labels : l[1] # p}

\* C13: Insert sets the refresh flag. A successful InsertMessageID of id
\* makes ListUpdated yield id exactly once, with the thread_id supplied; a
\* successful UpdateHeader for the perm id makes ListUpdated yield it no
\* more; no other call changes what is yielded for it; a transaction sees
\* the committed rows when it begins, the committed rows change only by a
\* Commit, to those of the transaction, and a listing yields each flagged
\* committed row once.
C13_InsertSetsFlag ==
    [][/\ \A p \in RowIds :
             /\ (calls' = {<<"InsertMessageID", p>>} /\ result' = "ok") =>
                    ListedFor(tx', p) = {MkID(p, input'.ThreadID)}
             /\ (calls' = {<<"UpdateHeader", p>>} /\ result' = "ok") =>
                    ListedFor(tx', p) = {}
             /\ (/\ txOpen /\ txOpen' /\ result' = "ok"
                 /\ calls' \notin {{<<"InsertMessageID", p>>}, {<<"UpdateHeader", p>>}}) =>
                    ListedFor(tx', p) = ListedFor(tx, p)
       /\ calls' = {<<"Begin", 0>>} => ListUpdated(tx') = ListUpdated(db)
       /\ calls' = {<<"Commit", 0>>} => (result = "ok" /\ ListUpdated(db') = ListUpdated(tx))
       /\ calls' # {<<"Commit", 0>>} => ListUpdated(db') = ListUpdated(db)
       /\ calls' = {<<"ListUpdated", 0>>} =>
             /\ output' = ListUpdated(db)
             /\ \A p \in RowIds :
                   Cardinality({id \in output' : id.PermID = p}) =
                      IF p \in Flagged(db) THEN 1 ELSE 0]_vars

\* C13: a listing has yielded id 1 with thread 2 for a row that had been
\* fetched (its size is known) and was inserted again.
C13_Witness ==
    /\ calls = {<<"ListUpdated", 0>>}
    /\ output = {MkID(1, 2)}
    /\ 2 \in DOMAIN db.rows
    /\ db.rows[1].size # NULL

C16_SizeSticky ==
    [][\A p \in RowIds :
          (p \in DOMAIN db.rows /\ db.rows[p].size # NULL) =>
             (p \in DOMAIN db'.rows /\ db'.rows[p].size # NULL)]_vars

\* C16: a row that had its header stored has been inserted again and
\* committed: its history_id is NULL and its size_estimate is kept.
C16_Witness ==
    /\ calls = {<<"Commit", 0>>}
    /\ 1 \in DOMAIN db.rows
    /\ db.rows[1].history = NULL
    /\ db.rows[1].size # NULL

\* The bytes a byte string is escaped to, byte by byte.
RECURSIVE Escaped(_)
Escaped(s) ==
    IF s = << >> THEN << >>
    ELSE LET c == Head(s)
             alnum == c \in (48 .. 57) \cup (65 .. 90) \cup (97 .. 122)
             hex == [d \in 0 .. 15 |-> IF d < 10 THEN 48 + d ELSE 65 + (d - 10)]
         IN (IF alnum THEN <<c>> ELSE <<61, hex[c \div 16], hex[c % 16]>>)
               \o Escaped(Tail(s))

C25_DirectoryFarm ==
    [][/\ input'.bad = NoDir =>
             /\ ~output'.err
             /\ output'.fs = {<< >>} \cup {<<x>> : x \in FarmLetters}
                                \cup {<<x, y>> : x \in FarmLetters, y \in FarmLetters}
             /\ Cardinality(output'.fs) = 1 + 16 + 16 * 16
             /\ {<<"a", "a">>, <<"p", "p">>, <<"m", "c">>} \subseteq output'.fs
       /\ output.fs \subseteq output'.fs]_vars

\* C25: the farm has been made a second time, over the part of it that a
\* first, failed making left, and is complete.
C25_Witness ==
    /\ output.n = 2
    /\ ~output.err
    /\ input.bad = NoDir
    /\ input.before # {}
    /\ Cardinality(input.before) < Cardinality(FarmDirs)
    /\ output.fs = FarmDirs

\* C21: Insert validates its input. An Insert of a body with an empty perm
\* id or with empty content returns an error and leaves every file, and so
\* HaveMessage of every perm id, as it was.
C21_InsertValidates ==
    [][(input'.msg.PermID = << >> \/ input'.msg.Raw = << >>) =>
          /\ output'.err
          /\ output'.files = output.files
          /\ \A a \in Accounts :
             \A id \in {<<97>>, <<98>>, << >>} :
                HaveFile(output'.files, NewService(a), id)
                   = HaveFile(output.files, NewService(a), id)]_vars

\* C21: a body with content and no perm id, or a body with a perm id and
\* no content, has been refused while the store holds a file.
C21_Witness ==
    /\ output.err
    /\ DOMAIN output.files # {}
    /\ input.msg \in {[PermID |-> << >>, Raw |-> <<120>>],
                      [PermID |-> <<98>>, Raw |-> << >>]}

\* The indices of raw that are kept: all but a CR that an LF follows.
KeptIndices(raw) ==
    {i \in 1 .. Len(raw) : ~(raw[i] = 13 /\ i < Len(raw) /\ raw[i + 1] = 10)}

\* raw with each CR LF pair replaced by LF, every other byte in order.
Folded(raw) ==
    LET kept == KeptIndices(raw)
        nth(k) == CHOOSE i \in kept : Cardinality({j \in kept : j <= i}) = k
    IN [k \in 1 .. Cardinality(kept) |-> raw[nth(k)]]

\* C22: CRLF folding. After a successful Insert of a non-empty body, the
\* file of its perm id holds the body with each CR LF pair replaced by one
\* LF and every other byte, a lone CR or LF too, kept in order; no other
\* file is changed.
C22_CrlfFolding ==
    [][(~output'.err /\ input'.msg.Raw # << >>) =>
          LET path == makePath(NewService(input'.account), input'.msg.PermID)
          IN /\ path \in DOMAIN output'.files
             /\ output'.files[path] = Folded(input'.msg.Raw)
             /\ \A q \in DOMAIN output.files :
                   q # path => (q \in DOMAIN output'.files
                                /\ output'.files[q] = output.files[q])]_vars

\* C22: the body CR CR LF CR, with one pair, a lone CR before it and a lone
\* CR after it, has been written as CR LF CR.
C22_Witness ==
    /\ ~output.err
    /\ input.msg.Raw = <<13, 13, 10, 13>>
    /\ DOMAIN output.files = {makePath(NewService(input.account), <<97>>)}
    /\ output.files[makePath(NewService(input.account), <<97>>)] = <<13, 10, 13>>

\* C24: blob disjointness of accounts. An Insert made by the Service of
\* one account leaves HaveMessage of every perm id as it was for the
\* Service of every other account.
C24_AccountsDisjoint ==
    [][\A b \in Accounts :
       \A id \in {<<97>>, <<98>>} :
          b # input'.account =>
             HaveFile(output'.files, NewService(b), id)
                = HaveFile(output.files, NewService(b), id)]_vars

\* C29: referential integrity. Every committed label row refers to a
\* committed message row.
C29_ReferentialIntegrity ==
    \A l \in db.labels : l[1] \in DOMAIN db.rows

\* C26: account isolation. WriteHistoryID for an account is rejected
\* exactly when the value is not above the greatest history id that
\* account has written itself (0 when it has written none), whatever the
\* other account has stored.
C26_AccountIsolation ==
    \A v \in Uints :
       calls = {<<"WriteHistoryID", v>>} =>
          ((result = "error") <=> (v <= SetMax(input.before \cup {0})))

\* C27: the Rate Governor gate. A remote call is issued only by a caller
\* the limiter has granted the call's cost to (1 for a page of ListAll, 2
\* for a page of ListFrom and for GetProfile, 5 for a get), the tokens
\* having been taken from the limiter; and when the wait ends because the
\* context is cancelled, no remote call is issued and the operation returns
\* an error.
C27_RateGate ==
    [][LET cost == CASE input.op = "ListAll" -> 1
                     [] input.op \in {"ListFrom", "GetProfile"} -> 2
                     [] OTHER -> 5
       IN /\ output'.issued # output.issued =>
                /\ output'.issued = output.issued + 1
                /\ output.st = "call"
                /\ output.granted = output'.issued * cost
          /\ output'.granted # output.granted =>
                /\ output'.granted = output.granted + cost
                /\ output'.tokens = output.tokens - cost
                /\ output'.tokens >= 0
                /\ output.granted = output.issued * cost
          /\ (output.st = "wait" /\ output'.st = "done") =>
                /\ cancelled
                /\ output'.err = CtxErr
                /\ output'.issued = output.issued
                /\ output'.tokens = output.tokens]_vars

\* C27: a ListFrom has received its second page, each page request made
\* after a grant of 2 tokens.
C27_Witness ==
    /\ input.op = "ListFrom"
    /\ output.st = "done"
    /\ output.err = NoErr
    /\ output.issued = 2
    /\ output.granted = 4

\* C28: RateLimited is absorbed at the MailStore layer. No operation of
\* the MailStore returns the rate-limit status of the remote to its caller.
C28_RateLimitedAbsorbed ==
    output.st = "done" => ~(output.err.type = "googleapi" /\ output.err.code = 429)

\* C30: phase-2 writes are serialized and order-independent. The state a
\* batch commits equals the result of handling its ids one after another:
\* when pull-download has committed, every id whose full fetch and Insert
\* succeeded in the run has had its UpdateHeader issued on the batch
\* transaction, and its committed row carries the fetched history id.
C30_BatchWritesSerial ==
    (pc = "idle" /\ <<"Commit2", 0>> \in calls) =>
        \A p \in PermIds :
           (/\ <<"GetMessageFull", p>> \in calls
            /\ <<"Insert", p>> \in calls
            /\ <<"handleError", p>> \notin calls) =>
               /\ <<"UpdateHeader", p>> \in calls
               /\ p \in DOMAIN db.rows
               /\ db.rows[p].history # NULL

\* The perm ids InsertMessageID has been called for in the run.
InsertedIds == {p \in PermIds : <<"InsertMessageID", p>> \in calls}

IsPrefix(s, t) == Len(s) <= Len(t) /\ \A i \in 1 .. Len(s) : s[i] = t[i]

EnumCalls(c) ==
    {e \in c : e[1] \in {"ListAll", "ListFrom", "InsertMessageID"}}

\* C32: the cursor write of phase 1. WriteHistoryID is called in one step
\* of a run only, after GetProfile and before any ListAll, ListFrom or
\* InsertMessageID; when it succeeds it adds the history id GetProfile
\* returned in this run and the tasks start, and when it fails the run ends
\* with an error, nothing enumerated and nothing committed. No other step
\* of phase 1 changes the cursors of the transaction, and every
\* enumeration call and save follows the write.
C32_CursorWrite ==
    [][LET wrote == <<"WriteHistoryID", 0>> \in calls' /\ <<"WriteHistoryID", 0>> \notin calls
       IN /\ pc = "p1_write" /\ pc' # "p1_write" /\ (pc' = "idle" => result' # "crash") =>
                wrote
          /\ wrote =>
                /\ pc = "p1_write"
                /\ <<"GetProfile", 0>> \in calls
                /\ EnumCalls(calls') = {}
                /\ IF pc' = "p1_wait"
                   THEN /\ orderedToSigned(profile) \notin tx.history
                        /\ tx'.history = tx.history \cup {orderedToSigned(profile)}
                        /\ LatestHistoryID(tx') = profile
                        /\ prod'.st = "start"
                   ELSE /\ pc' = "idle"
                        /\ result' = "error"
                        /\ db' = db
          /\ (Phase = 1 /\ pc # "p1_begin" /\ pc' \notin {"idle", "p2_begin"}
              /\ tx'.history # tx.history) => wrote
          /\ ~(EnumCalls(calls') \subseteq EnumCalls(calls)) =>
                /\ pc = "p1_wait"
                /\ <<"WriteHistoryID", 0>> \in calls
                /\ LatestHistoryID(tx) = profile]_vars

\* C32: a run that enumerates from a stored cursor: the profile's history
\* id was written before ListFrom and a save.
C32_Witness ==
    /\ pc = "p1_wait"
    /\ historyId > 0
    /\ {<<"WriteHistoryID", 0>>, <<"ListFrom", 0>>} \subseteq calls
    /\ InsertedIds # {}
    /\ LatestHistoryID(tx) = profile
    /\ profile > historyId

\* C33: the choice of enumeration. The producer makes one enumeration call
\* in a run, when it starts: ListAll, for every mail of the remote, exactly
\* when the cursor read in the phase-1 transaction is 0, and ListFrom
\* otherwise, for the messages added since the stored cursor (which is below
\* the profile's). No other step makes an enumeration call, so a run makes
\* at most one and never both.
C33_EnumerationChoice ==
    [][LET lists == {<<"ListAll", 0>>, <<"ListFrom", 0>>}
           new == (calls' \cap lists) \ calls
       IN /\ new # {} =>
                /\ pc = "p1_wait" /\ prod.st = "start"
                /\ calls \cap lists = {}
                /\ historyId = LatestHistoryID(db)
                /\ new = IF historyId = 0 THEN {<<"ListAll", 0>>} ELSE {<<"ListFrom", 0>>}
                /\ historyId # 0 => historyId < profile
                /\ prod'.st = "emit" =>
                      prod'.todo = IF historyId = 0 THEN RemoteListAll
                                   ELSE RemoteListFrom(historyId)
          /\ (pc = "p1_wait" /\ pc' = "p1_wait" /\ prod.st = "start" /\ prod'.st # "start") =>
                new # {}]_vars

\* C33: a run lists from its stored cursor: the message added since is in
\* the list, the message added before is not.
C33_Witness ==
    /\ pc = "p1_wait"
    /\ prod.st = "emit"
    /\ historyId > 0
    /\ <<"ListFrom", 0>> \in calls
    /\ \E p \in listed : remoteAdded[p] > historyId
    /\ \E p \in PermIds \ listed : remoteKind[p] = "mail" /\ remoteAdded[p] <= historyId

\* The 32-bit FNV-1a hash, kept as two 16-bit halves <<high, low>> so that
\* no product leaves the range of the integers: the offset basis is
\* 0x811C9DC5, the prime 0x01000193 = 2^24 + 403.
RECURSIVE Fnv1a32(_, _, _)
Fnv1a32(b, i, h) ==
    IF i > Len(b) THEN h
    ELSE LET lo == (h[2] \div 256) * 256 + BitXor(h[2] % 256, b[i], 8)
             lo403 == lo * 403
             hi403 == h[1] * 403 + (lo403 \div 65536) + (lo % 256) * 256
         IN Fnv1a32(b, i + 1, <<hi403 % 65536, lo403 % 65536>>)

\* C34: shard derivation stays inside the farm. With h the 32-bit FNV-1a
\* hash of the perm id, the directories of the computed path are
\* alphabet[h mod 16] and alphabet[(h div 16) mod 16] of "abcdefghijklmnop";
\* both indices are in 0..15, and the directory is one of the 256
\* directories New has made.
C34_ShardInFarm ==
    output.st = "path" =>
        LET h == Fnv1a32(input.id, 1, <<33052, 40389>>)
            i1 == h[2] % 16
            i2 == (h[2] \div 16) % 16
            alphabet == <<"a", "b", "c", "d", "e", "f", "g", "h",
                          "i", "j", "k", "l", "m", "n", "o", "p">>
        IN /\ i1 \in 0 .. 15 /\ i2 \in 0 .. 15
           /\ output.path.dirs = <<alphabet[i1 + 1], alphabet[i2 + 1]>>
           /\ output.path.dirs \in output.fs
           /\ Cardinality({d \in output.fs : Len(d) = 2}) = 256

\* C34: the path of the perm id "Az" has been computed in the farm New made
\* where nothing existed.
C34_Witness ==
    /\ output.st = "path"
    /\ input.id = <<65, 122>>
    /\ Cardinality(output.fs) = 273
    /\ output.path.dirs \in output.fs

\* The perm ids phase 2 has in hand: not yet yielded, held by the loop or
\* the worker, handled.
Unyielded == {prod.todo[i].PermID : i \in 1 .. Len(prod.todo)}

Held == IF cons.st = "handle" THEN {cons.id.PermID} ELSE {}

\* C35: exactly-once dispatch in phase 2. While the producer lists, every
\* flagged row is in exactly one place: not yet yielded, held by the
\* receiver, or handled. An id the producer yields goes to the one receiver
\* (the spawning loop for the first, the worker for the others), an id held
\* is handled next and was not handled before, nothing else is ever handled,
\* and the tasks do not end with an id held. So when the batch completes
\* without error every yielded id has been handled once, whether the rows
\* are none, one or more than the workers.
C35_ExactlyOnce ==
    [][(pc \in {"p2_first", "p2_wait"}) =>
          /\ prod.st = "emit" =>
                /\ Unyielded \cup Held \cup Handled = Flagged(tx)
                /\ Unyielded \cap Held = {} /\ Unyielded \cap Handled = {}
                /\ Held \cap Handled = {}
                /\ Cardinality(Unyielded) = Len(prod.todo)
          /\ (prod'.st = "emit" /\ prod.st = "emit" /\ prod'.todo # prod.todo) =>
                /\ Held = {}
                /\ cons'.st = "handle"
                /\ Unyielded' = Unyielded \ Held'
                /\ Cardinality(Unyielded') = Cardinality(Unyielded) - 1
          /\ (Held # {} /\ pc' # "idle") =>
                /\ Held \cap Handled = {}
                /\ Held' = Held \/ (Held' = {} /\ Handled' = Handled \cup Held)
          /\ (Handled' # Handled /\ pc' # "idle") => Handled' = Handled \cup Held
          /\ pc' = "p2_commit" =>
                /\ Held = {}
                /\ Handled \subseteq Flagged(tx)
                /\ ~cancelled => Handled = Flagged(tx)]_vars

\* C35: a batch of two rows has completed without error, both handled by
\* the one worker.
C35_Witness ==
    /\ pc = "p2_commit"
    /\ Cardinality(Flagged(tx)) = 2
    /\ Handled = Flagged(tx)

\* C36: no truncated body is taken for a downloaded one. Whenever
\* HaveMessage of a perm id is true, after a failed Insert too, the file
\* holds the complete folded body of the message.
C36_NoTruncatedBody ==
    LET s == NewService(input.account)
    IN HaveFile(output.files, s, input.msg.PermID) =>
          output.files[makePath(s, input.msg.PermID)] = Folded(input.msg.Raw)

\* The remote's history has never been reset: every message it holds still
\* has the history id it arrived with.
NoReset == \A p \in PermIds : remoteKind[p] # "none" => remoteAdded[p] > 0

C38_FoldIdempotent ==
    (~output.err /\ input.msg.Raw # << >>) =>
        \A q \in DOMAIN output.files :
           LET written == output.files[q]
           IN /\ \A i \in 1 .. Len(written) - 1 :
                    ~(written[i] = 13 /\ written[i + 1] = 10)
              /\ ReplaceAll(written, <<13, 10>>, <<10>>) = written

C40_FullRangeHistory ==
    \A p \in RowIds :
       (calls = {<<"UpdateHeader", p>>} /\ p \in DOMAIN tx.rows) =>
          /\ input.HistoryID >= Half => (result = "ok" \/ tx.rows[p].history # NULL)
          /\ result = "ok" =>
                tx.rows[p].history = Some(orderedToSigned(input.HistoryID))

====
